---- MODULE Spec2Model ----
(***************************************************************************)
(* Model of docs/js/fenBuilder.js: assembling a FEN string from 64 square  *)
(* classifications (buildFEN, validateAndCorrect, detectOrientation), of   *)
(* the board detector (findBoardRect, refineBoardRect, extractTiles, the   *)
(* hysteresis step of canny), of the grid editor (docs/js/gridEditor.js)   *)
(* and of the page that drives them (docs/js/app.js).  Each part has its   *)
(* own specification: Spec, DetectSpec, CannySpec, GridSpec, AppSpec.      *)
(*                                                                         *)
(* Probabilities are integers (percent); the code only compares them and   *)
(* subtracts them inside a sort comparator.  Strings are sequences of      *)
(* one-character strings.                                                  *)
(***************************************************************************)
EXTENDS Integers, Sequences, FiniteSets, TLC

VARIABLES predictions, isFlipped, pc, board, boardProbs, warnings,
          changed, passes, cellsBuilt, fen

\* board detection (detectAndSegment / getBoardRect): the image on the working
\* canvas, the edge map, the rectangles passed to chessboardScore so far, the
\* coarse rectangle, the alignment found by the two searches and the result
VARIABLES canvas, edges, scored, rough, alignment, rect

\* the tiles extractTiles cut out of the detected rectangle
VARIABLES tiles

detVars == <<canvas, edges, scored, rough, alignment, rect, tiles>>

\* canny hysteresis (its loop flag is the variable changed): image width and
\* height, the non-maximum-suppressed magnitudes, the edge map, and the
\* number of sweeps of the linking loop so far
VARIABLES dims, nms, edge, sweeps

cannyVars == <<dims, nms, edge, sweeps>>

\* the grid editor (gridEditor.js): _img, _scale, the rect it was enabled
\* with, _xLines, _yLines, _dragging, and the number of applyDrag calls
VARIABLES img, scale, gridRect, xLines, yLines, dragging, moves

gridVars == <<img, scale, gridRect, xLines, yLines, dragging, moves>>

\* the page (app.js): its state variables, the image the grid editor is
\* enabled on, the visibility of the grid controls and of the palette, the
\* FEN text field, the promises in flight, and, for the properties, the image
\* currentPredictions was computed from, and the results of the buildFEN
\* calls and the number of flips since the last confirmation
VARIABLES sourceImg, rotationDeg, currentImg, currentPredictions, predictionsImg,
          boardArray, fenText, gridImg, gridControlsHidden, paletteHidden,
          tasks, calls, flips

appVars == <<sourceImg, rotationDeg, currentImg, currentPredictions, predictionsImg,
             boardArray, fenText, gridImg, gridControlsHidden, paletteHidden,
             tasks, calls, flips>>

\* the variables of buildFEN other than its position pc
fenVars == <<predictions, isFlipped, board, boardProbs, warnings,
             changed, passes, cellsBuilt, fen>>

vars == <<fenVars, pc, detVars, cannyVars, gridVars, appVars>>

\* ------------------------------------------------------------------------
\* Bounds of the explored input space
\* ------------------------------------------------------------------------

\* at most this many squares of a base position carry a perturbed prediction
MaxNoise == 2

\* prediction batches of length 64 - MaxLenDelta .. 64 + MaxLenDelta
MaxLenDelta == 1

\* cap on the number of Rule 3 passes that are followed (one pass per piece
\* type plus the final pass that finds nothing to change)
MaxPasses == 13

\* at most this many applyDrag calls in one grid editor session
MaxMoves == 3

\* the files a user loads, the rotation steps, the promises in flight at once
MaxFiles == 2

MaxRotations == 1

MaxTasks == 2

\* ------------------------------------------------------------------------
\* Class tables
\* ------------------------------------------------------------------------

IDX_EMPTY == 0
IDX_WP == 1
IDX_WN == 2
IDX_WB == 3
IDX_WR == 4
IDX_WQ == 5
IDX_WK == 6
IDX_BP == 7
IDX_BN == 8
IDX_BB == 9
IDX_BR == 10
IDX_BQ == 11
IDX_BK == 12

Classes == 0..12

\* CLASS_NAMES[c], 0-based
CLASS_NAMES == [c \in Classes |->
    <<"empty", "wP", "wN", "wB", "wR", "wQ", "wK",
      "bP", "bN", "bB", "bR", "bQ", "bK">>[c + 1]]

\* PIECE_TO_FEN with the white knight written as 'K'
PIECE_TO_FEN_KnightAsK == [n \in {CLASS_NAMES[c] : c \in Classes} |->
    CASE n = "wP" -> "P" [] n = "wN" -> "K" [] n = "wB" -> "B"
      [] n = "wR" -> "R" [] n = "wQ" -> "Q" [] n = "wK" -> "K"
      [] n = "bP" -> "p" [] n = "bN" -> "n" [] n = "bB" -> "b"
      [] n = "bR" -> "r" [] n = "bQ" -> "q" [] n = "bK" -> "k"
      [] n = "empty" -> "null"]

\* PIECE_TO_FEN[name]; "null" stands for the null of the 'empty' entry
PIECE_TO_FEN == [n \in {CLASS_NAMES[c] : c \in Classes} |->
    CASE n = "wP" -> "P" [] n = "wN" -> "N" [] n = "wB" -> "B"
      [] n = "wR" -> "R" [] n = "wQ" -> "Q" [] n = "wK" -> "K"
      [] n = "bP" -> "p" [] n = "bN" -> "n" [] n = "bB" -> "b"
      [] n = "bR" -> "r" [] n = "bQ" -> "q" [] n = "bK" -> "k"
      [] n = "empty" -> "null"]

ALL_PAWNS == {IDX_WP, IDX_BP}

\* PIECE_LIMITS with a second white queen allowed
PIECE_LIMITS_TwoQueens == <<
    <<IDX_WK, 1, "wK">>, <<IDX_BK, 1, "bK">>,
    <<IDX_WQ, 2, "wQ">>, <<IDX_BQ, 1, "bQ">>,
    <<IDX_WR, 2, "wR">>, <<IDX_BR, 2, "bR">>,
    <<IDX_WB, 2, "wB">>, <<IDX_BB, 2, "bB">>,
    <<IDX_WN, 2, "wN">>, <<IDX_BN, 2, "bN">>,
    <<IDX_WP, 8, "wP">>, <<IDX_BP, 8, "bP">> >>

\* PIECE_LIMITS in source order: [classIndex, max, label]
PIECE_LIMITS == <<
    <<IDX_WK, 1, "wK">>, <<IDX_BK, 1, "bK">>,
    <<IDX_WQ, 1, "wQ">>, <<IDX_BQ, 1, "bQ">>,
    <<IDX_WR, 2, "wR">>, <<IDX_BR, 2, "bR">>,
    <<IDX_WB, 2, "wB">>, <<IDX_BB, 2, "bB">>,
    <<IDX_WN, 2, "wN">>, <<IDX_BN, 2, "bN">>,
    <<IDX_WP, 8, "wP">>, <<IDX_BP, 8, "bP">> >>

\* the 64 squares in scan order (rank ascending, then file ascending)
ScanOrder == [i \in 1..64 |-> [r |-> (i - 1) \div 8, f |-> (i - 1) % 8]]

\* ------------------------------------------------------------------------
\* bestAlternative(probs, excludeSet)
\* ------------------------------------------------------------------------

RECURSIVE bestAltLoop(_, _, _, _, _)
bestAltLoop(probs, excludeSet, c, bestIdx, bestProb) ==
    IF c > 12 THEN bestIdx
    ELSE IF c \in excludeSet
         THEN bestAltLoop(probs, excludeSet, c + 1, bestIdx, bestProb)
         ELSE IF probs[c] > bestProb
              THEN bestAltLoop(probs, excludeSet, c + 1, c, probs[c])
              ELSE bestAltLoop(probs, excludeSet, c + 1, bestIdx, bestProb)

\* bestAlternative that ignores the exclude set
bestAlternative_NoExclude(probs, excludeSet) ==
    bestAltLoop(probs, {}, 0, IDX_EMPTY, -1)

bestAlternative(probs, excludeSet) ==
    bestAltLoop(probs, excludeSet, 0, IDX_EMPTY, -1)

\* ------------------------------------------------------------------------
\* detectOrientation(predictions)
\* ------------------------------------------------------------------------

\* name.startsWith(ch) for the class names
startsWith(name, ch) ==
    IF ch = "w" THEN name \in {"wP", "wN", "wB", "wR", "wQ", "wK"}
    ELSE IF ch = "b" THEN name \in {"bP", "bN", "bB", "bR", "bQ", "bK"}
    ELSE FALSE

\* one counting loop: for (i = lo; i < hi; i++) if (name.startsWith(ch)) n++
RECURSIVE countRow(_, _, _, _)
countRow(preds, i, hi, ch) ==
    IF i >= hi THEN 0
    ELSE (IF startsWith(CLASS_NAMES[preds[i + 1].classIndex], ch) THEN 1 ELSE 0)
         + countRow(preds, i + 1, hi, ch)

\* detectOrientation with || in place of &&
detectOrientation_Or(preds) ==
    LET topWhite == countRow(preds, 0, 8, "w")
        topBlack == countRow(preds, 0, 8, "b")
        bottomWhite == countRow(preds, 56, 64, "w")
        bottomBlack == countRow(preds, 56, 64, "b")
    IN  topWhite > topBlack \/ bottomBlack > bottomWhite

detectOrientation(preds) ==
    LET topWhite == countRow(preds, 0, 8, "w")
        topBlack == countRow(preds, 0, 8, "b")
        bottomWhite == countRow(preds, 56, 64, "w")
        bottomBlack == countRow(preds, 56, 64, "b")
    IN  topWhite > topBlack /\ bottomBlack > bottomWhite

\* ------------------------------------------------------------------------
\* validateAndCorrect(board, probs)
\* A warning string is modelled by the values interpolated into it:
\*   rule 1  `${from} on rank ${info} -> ${to}`
\*   rule 2  `missing ${info}K: ${from} -> ${info}K`
\*   rule 3  `extra ${from} -> ${to}`
\* ------------------------------------------------------------------------

Warning(rule, from, to, info) ==
    [rule |-> rule, from |-> from, to |-> to, info |-> info]

SetCell(b, r, f, v) == [b EXCEPT ![r][f] = v]

\* Rule 1 scanning rank indices 1 and 7 (rank numbers taken for indices)
RECURSIVE Rule1Loop_Rank1(_, _, _, _)
Rule1Loop_Rank1(b, probs, w, k) ==
    IF k >= 16 THEN [board |-> b, warnings |-> w]
    ELSE LET rankIdx == IF k < 8 THEN 1 ELSE 7
             file == k % 8
             cls == b[rankIdx][file]
         IN  IF cls \in ALL_PAWNS
             THEN LET newIdx == bestAlternative(probs[rankIdx][file], ALL_PAWNS)
                  IN  Rule1Loop_Rank1(SetCell(b, rankIdx, file, newIdx), probs,
                                Append(w, Warning(1, CLASS_NAMES[cls],
                                                  CLASS_NAMES[newIdx],
                                                  IF rankIdx = 0 THEN "8" ELSE "1")),
                                k + 1)
             ELSE Rule1Loop_Rank1(b, probs, w, k + 1)

\* Rule 1: for (rankIdx of [0, 7]) for (file = 0..7); k enumerates the 16 cells
RECURSIVE Rule1Loop(_, _, _, _)
Rule1Loop(b, probs, w, k) ==
    IF k >= 16 THEN [board |-> b, warnings |-> w]
    ELSE LET rankIdx == IF k < 8 THEN 0 ELSE 7
             file == k % 8
             cls == b[rankIdx][file]
         IN  IF cls \in ALL_PAWNS
             THEN LET newIdx == bestAlternative(probs[rankIdx][file], ALL_PAWNS)
                  IN  Rule1Loop(SetCell(b, rankIdx, file, newIdx), probs,
                                Append(w, Warning(1, CLASS_NAMES[cls],
                                                  CLASS_NAMES[newIdx],
                                                  IF rankIdx = 0 THEN "8" ELSE "1")),
                                k + 1)
             ELSE Rule1Loop(b, probs, w, k + 1)

Rule1(b, probs, w) == Rule1Loop(b, probs, w, 0)

\* Rule 2, the search for the square with the highest king probability:
\* strict > so the first maximum in scan order wins; starts at (0,0), -1
RECURSIVE bestKingSquare(_, _, _, _, _)
bestKingSquare(probs, kingIdx, i, best, bestProb) ==
    IF i > 64 THEN best
    ELSE LET s == ScanOrder[i]
         IN  IF probs[s.r][s.f][kingIdx] > bestProb
             THEN bestKingSquare(probs, kingIdx, i + 1, s, probs[s.r][s.f][kingIdx])
             ELSE bestKingSquare(probs, kingIdx, i + 1, best, bestProb)

\* Rule 2 for one side, placing the king without a warning
Rule2Side_Silent(b, probs, w, kingIdx, side) ==
    LET found == \E r \in 0..7, f \in 0..7 : b[r][f] = kingIdx
    IN  IF found THEN [board |-> b, warnings |-> w]
        ELSE LET s == bestKingSquare(probs, kingIdx, 1, [r |-> 0, f |-> 0], -1)
             IN  [board |-> SetCell(b, s.r, s.f, kingIdx), warnings |-> w]

\* Rule 2 for one side
Rule2Side(b, probs, w, kingIdx, side) ==
    LET found == \E r \in 0..7, f \in 0..7 : b[r][f] = kingIdx
    IN  IF found THEN [board |-> b, warnings |-> w]
        ELSE LET s == bestKingSquare(probs, kingIdx, 1, [r |-> 0, f |-> 0], -1)
                 oldName == CLASS_NAMES[b[s.r][s.f]]
             IN  [board |-> SetCell(b, s.r, s.f, kingIdx),
                  warnings |-> Append(w, Warning(2, oldName,
                                                 CLASS_NAMES[kingIdx], side))]

\* Rule 2: white first, then black on the board white left behind
Rule2(b, probs, w) ==
    LET white == Rule2Side(b, probs, w, IDX_WK, "w")
    IN  Rule2Side(white.board, probs, white.warnings, IDX_BK, "b")

\* pieceCounts[c]: occurrences of class c on the board
pieceCounts(b) ==
    [c \in Classes |-> Cardinality({s \in 0..63 : b[s \div 8][s % 8] = c})]

\* the exclude set with the white knight and white pawn limits compared
\* with > in place of >=
atLimitSet_OverOnly(counts) ==
    {PIECE_LIMITS[k][1] : k \in {j \in 1..Len(PIECE_LIMITS) :
        IF PIECE_LIMITS[j][1] \in {IDX_WN, IDX_WP}
        THEN counts[PIECE_LIMITS[j][1]] > PIECE_LIMITS[j][2]
        ELSE counts[PIECE_LIMITS[j][1]] >= PIECE_LIMITS[j][2]}}

\* the exclude set: all piece types at or above their limit
atLimitSet(counts) ==
    {PIECE_LIMITS[k][1] : k \in {j \in 1..Len(PIECE_LIMITS) :
                                  counts[PIECE_LIMITS[j][1]] >= PIECE_LIMITS[j][2]}}

\* squares holding pieceIdx, in scan order, each with its conf
squaresOf(b, probs, pieceIdx) ==
    LET hit == SelectSeq(ScanOrder, LAMBDA s : b[s.r][s.f] = pieceIdx)
    IN  [i \in 1..Len(hit) |->
            [r |-> hit[i].r, f |-> hit[i].f, conf |-> probs[hit[i].r][hit[i].f][pieceIdx]]]

\* the sort with the comparator's operands swapped: ascending by conf
RECURSIVE insertByConf_Ascending(_, _)
insertByConf_Ascending(sorted, x) ==
    IF sorted = <<>> THEN <<x>>
    ELSE IF x.conf - Head(sorted).conf >= 0
         THEN <<Head(sorted)>> \o insertByConf_Ascending(Tail(sorted), x)
         ELSE <<x>> \o sorted

\* the sort placing an element before those of equal conf (ties reversed)
RECURSIVE insertByConf_TiesReversed(_, _)
insertByConf_TiesReversed(sorted, x) ==
    IF sorted = <<>> THEN <<x>>
    ELSE IF Head(sorted).conf - x.conf > 0
         THEN <<Head(sorted)>> \o insertByConf_TiesReversed(Tail(sorted), x)
         ELSE <<x>> \o sorted

\* squares.sort((a, b) => b.conf - a.conf): descending by conf, stable
RECURSIVE insertByConf(_, _)
insertByConf(sorted, x) ==
    IF sorted = <<>> THEN <<x>>
    ELSE IF Head(sorted).conf - x.conf >= 0
         THEN <<Head(sorted)>> \o insertByConf(Tail(sorted), x)
         ELSE <<x>> \o sorted

RECURSIVE sortByConf(_)
sortByConf(sq) ==
    IF sq = <<>> THEN <<>>
    ELSE insertByConf(sortByConf(SubSeq(sq, 1, Len(sq) - 1)), sq[Len(sq)])

\* for (i = maxCount; i < squares.length; i++) demote squares[i]
RECURSIVE demoteLoop(_, _, _, _, _, _, _, _)
demoteLoop(b, probs, w, sq, i, atLimit, label, chg) ==
    IF i >= Len(sq) THEN [board |-> b, warnings |-> w, changed |-> chg]
    ELSE LET r == sq[i + 1].r
             f == sq[i + 1].f
             newIdx == bestAlternative(probs[r][f], atLimit)
         IN  demoteLoop(SetCell(b, r, f, newIdx), probs,
                        Append(w, Warning(3, label, CLASS_NAMES[newIdx], "")),
                        sq, i + 1, atLimit, label, TRUE)

\* the for loop over PIECE_LIMITS inside one pass; counts and atLimit are
\* the ones computed at the start of the pass
RECURSIVE limitsLoop(_, _, _, _, _, _, _)
limitsLoop(b, probs, w, k, counts, atLimit, chg) ==
    IF k > Len(PIECE_LIMITS) THEN [board |-> b, warnings |-> w, changed |-> chg]
    ELSE LET pieceIdx == PIECE_LIMITS[k][1]
             maxCount == PIECE_LIMITS[k][2]
             label == PIECE_LIMITS[k][3]
         IN  IF counts[pieceIdx] <= maxCount
             THEN limitsLoop(b, probs, w, k + 1, counts, atLimit, chg)
             ELSE LET squares == sortByConf(squaresOf(b, probs, pieceIdx))
                      d == demoteLoop(b, probs, w, squares, maxCount,
                                      atLimit, label, chg)
                  IN  limitsLoop(d.board, probs, d.warnings, k + 1, counts, atLimit,
                                 d.changed)

\* one iteration of while (changed)
Rule3Pass(b, probs, w) ==
    LET counts == pieceCounts(b)
    IN  limitsLoop(b, probs, w, 1, counts, atLimitSet(counts), FALSE)

\* while (changed) { ... }
RECURSIVE Rule3(_, _, _)
Rule3(b, probs, w) ==
    LET p == Rule3Pass(b, probs, w)
    IN  IF p.changed THEN Rule3(p.board, probs, p.warnings)
        ELSE [board |-> p.board, warnings |-> p.warnings]

validateAndCorrect(b, probs) ==
    LET r1 == Rule1(b, probs, <<>>)
        r2 == Rule2(r1.board, probs, r1.warnings)
    IN  Rule3(r2.board, probs, r2.warnings)

\* ------------------------------------------------------------------------
\* buildFEN: serialization
\* ------------------------------------------------------------------------

DigitChars == <<"0", "1", "2", "3", "4", "5", "6", "7", "8", "9">>

\* fenRow += emptyCount : the decimal digits of a number, as characters
RECURSIVE NumToStr(_)
NumToStr(n) ==
    IF n < 10 THEN <<DigitChars[n + 1]>>
    ELSE NumToStr(n \div 10) \o <<DigitChars[(n % 10) + 1]>>

\* the inner loop without the flush of the trailing empty squares
RECURSIVE fenRowLoop_NoFlush(_, _, _, _, _)
fenRowLoop_NoFlush(b, rank, file, fenRow, emptyCount) ==
    IF file >= 8
    THEN fenRow
    ELSE LET piece == PIECE_TO_FEN[CLASS_NAMES[b[rank][file]]]
         IN  IF piece = "null"
             THEN fenRowLoop_NoFlush(b, rank, file + 1, fenRow, emptyCount + 1)
             ELSE fenRowLoop_NoFlush(b, rank, file + 1,
                             (IF emptyCount > 0 THEN fenRow \o NumToStr(emptyCount)
                                                ELSE fenRow) \o <<piece>>,
                             0)

\* the inner loop over the files of one rank, then the trailing flush
RECURSIVE fenRowLoop(_, _, _, _, _)
fenRowLoop(b, rank, file, fenRow, emptyCount) ==
    IF file >= 8
    THEN IF emptyCount > 0 THEN fenRow \o NumToStr(emptyCount) ELSE fenRow
    ELSE LET piece == PIECE_TO_FEN[CLASS_NAMES[b[rank][file]]]
         IN  IF piece = "null"
             THEN fenRowLoop(b, rank, file + 1, fenRow, emptyCount + 1)
             ELSE fenRowLoop(b, rank, file + 1,
                             (IF emptyCount > 0 THEN fenRow \o NumToStr(emptyCount)
                                                ELSE fenRow) \o <<piece>>,
                             0)

\* fenRows: one string per rank, top to bottom
fenRowsOf(b) == [i \in 1..8 |-> fenRowLoop(b, i - 1, 0, <<>>, 0)]

\* fenRows.join('/')
RECURSIVE join(_, _)
join(rows, sep) ==
    IF Len(rows) = 0 THEN <<>>
    ELSE IF Len(rows) = 1 THEN rows[1]
    ELSE rows[1] \o <<sep>> \o join(Tail(rows), sep)

\* ' w KQkq - 0 1'
FEN_SUFFIX == <<" ", "w", " ", "K", "Q", "k", "q", " ", "-", " ", "0", " ", "1">>

serialize(b) == join(fenRowsOf(b), "/") \o FEN_SUFFIX

\* ------------------------------------------------------------------------
\* buildFEN: grid construction and orientation
\* ------------------------------------------------------------------------

\* number of cells pushed by the nested construction loop before it either
\* completes (64) or reads predictions[idx] past the end of the batch, where
\* `predictions[idx].classIndex` throws a TypeError
cellsPushed(preds) == IF Len(preds) >= 64 THEN 64 ELSE Len(preds)

\* the rows pushed onto `board` after n cells were pushed (complete rows only)
gridOfClasses(preds, n) ==
    [rank \in 0..((n \div 8) - 1) |->
        [file \in 0..7 |-> preds[rank * 8 + file + 1].classIndex]]

gridOfProbs(preds, n) ==
    [rank \in 0..((n \div 8) - 1) |->
        [file \in 0..7 |-> preds[rank * 8 + file + 1].probs]]

\* the flip with the rows reversed but not the columns
reverseGrid_RowsOnly(g) == [rank \in 0..7 |-> [file \in 0..7 |-> g[7 - rank][file]]]

\* grid.reverse().map(row => row.reverse())
reverseGrid(g) == [rank \in 0..7 |-> [file \in 0..7 |-> g[7 - rank][7 - file]]]

\* ------------------------------------------------------------------------
\* Inputs: prediction batches
\* ------------------------------------------------------------------------

\* a 13-entry probability vector with up to three non-zero entries (percent)
Vec(a, pa, b, pb, c, pcc) ==
    [k \in Classes |-> IF k = a THEN pa ELSE IF k = b THEN pb
                       ELSE IF k = c THEN pcc ELSE 0]

\* a confident prediction of class c
Pred(c) == [classIndex |-> c, probs |-> Vec(c, 90, IDX_EMPTY, 10, c, 90)]

\* the less certain predictions a perturbed square can carry
NoisePreds == {
    [classIndex |-> IDX_WK,    probs |-> Vec(IDX_WK, 60, IDX_WP, 30, IDX_EMPTY, 10)],
    [classIndex |-> IDX_WQ,    probs |-> Vec(IDX_WQ, 50, IDX_WR, 40, IDX_WB, 10)],
    [classIndex |-> IDX_WP,    probs |-> Vec(IDX_WP, 70, IDX_WN, 20, IDX_EMPTY, 10)],
    [classIndex |-> IDX_EMPTY, probs |-> Vec(IDX_EMPTY, 40, IDX_WK, 30, IDX_BK, 30)],
    [classIndex |-> IDX_BK,    probs |-> Vec(IDX_BK, 95, IDX_BQ, 5, IDX_BK, 95)],
    [classIndex |-> IDX_BP,    probs |-> Vec(IDX_BP, 80, IDX_EMPTY, 15, IDX_BK, 5)],
    [classIndex |-> IDX_WR,    probs |-> Vec(IDX_WR, 45, IDX_WQ, 45, IDX_EMPTY, 10)],
    [classIndex |-> IDX_BN,    probs |-> Vec(IDX_BN, 85, IDX_BB, 15, IDX_BN, 85)] }

\* the squares (index = rank * 8 + file) that can be perturbed: two on the
\* bottom rank, one on the top rank, one in the middle of the board
NoiseSquares == {3, 27, 59, 61}

EmptyBoard == [i \in 1..64 |-> IDX_EMPTY]

\* the standard starting position, white on the bottom of the image
StartPos ==
    <<10, 8, 9, 11, 12, 9, 8, 10>> \o
    <<7, 7, 7, 7, 7, 7, 7, 7>> \o
    [i \in 1..32 |-> 0] \o
    <<1, 1, 1, 1, 1, 1, 1, 1>> \o
    <<4, 2, 3, 5, 6, 3, 2, 4>>

\* the same position with the ranks swapped top to bottom
StartPosSwapped == [i \in 1..64 |-> StartPos[(7 - ((i - 1) \div 8)) * 8 + ((i - 1) % 8) + 1]]

\* a sparse legal position with counts below the limits
Endgame ==
    <<0, 0, 0, 0, 0, 0, 12, 0>> \o
    <<0, 7, 0, 0, 0, 0, 0, 0>> \o
    <<0, 0, 0, 0, 0, 10, 0, 0>> \o
    <<0, 0, 0, 0, 0, 0, 0, 0>> \o
    <<0, 0, 5, 0, 0, 0, 0, 0>> \o
    <<0, 0, 0, 0, 1, 0, 0, 0>> \o
    <<0, 0, 0, 0, 0, 0, 0, 4>> \o
    <<0, 0, 0, 0, 6, 0, 0, 0>>

BaseBoards == {EmptyBoard, StartPos, StartPosSwapped, Endgame}

\* every assignment of a noise prediction to at most MaxNoise noise squares
NoiseMaps ==
    UNION {[S -> NoisePreds] :
           S \in {T \in SUBSET NoiseSquares : Cardinality(T) <= MaxNoise}}

\* the 64 predictions for a base position and a noise assignment
Batch(base, noise) ==
    [i \in 1..64 |-> IF (i - 1) \in DOMAIN noise THEN noise[i - 1] ELSE Pred(base[i])]

\* a batch cut or padded (with empty squares) to length n
Resize(batch, n) ==
    [i \in 1..n |-> IF i <= 64 THEN batch[i] ELSE Pred(IDX_EMPTY)]

Lengths == (64 - MaxLenDelta)..(64 + MaxLenDelta)

EmptyGrid == [rank \in {} |-> <<>>]

\* ------------------------------------------------------------------------
\* The values of the parts of the program that are not running
\* ------------------------------------------------------------------------

\* null, for the variables that hold an object or null
Null == <<>>

FenIdle ==
    /\ predictions = <<>>
    /\ isFlipped = FALSE
    /\ board = EmptyGrid
    /\ boardProbs = EmptyGrid
    /\ warnings = <<>>
    /\ changed = TRUE
    /\ passes = 0
    /\ cellsBuilt = 0
    /\ fen = <<>>

DetIdle ==
    /\ canvas = <<>> /\ edges = <<>> /\ scored = <<>>
    /\ rough = <<>> /\ alignment = <<>> /\ rect = <<>>
    /\ tiles = <<>>

CannyIdle ==
    /\ dims = <<>> /\ nms = <<>> /\ edge = <<>> /\ sweeps = 0

GridIdle ==
    /\ img = Null /\ scale = Null /\ gridRect = Null
    /\ xLines = Null /\ yLines = Null
    /\ dragging = Null
    /\ moves = 0

\* app.js before a file is loaded
AppIdle ==
    /\ sourceImg = 0
    /\ rotationDeg = 0
    /\ currentImg = Null
    /\ currentPredictions = Null
    /\ predictionsImg = Null
    /\ boardArray = Null
    /\ fenText = <<>>
    /\ gridImg = Null
    /\ gridControlsHidden = TRUE
    /\ paletteHidden = TRUE
    /\ tasks = {}
    /\ calls = {}
    /\ flips = 0

\* ------------------------------------------------------------------------
\* State machine
\* ------------------------------------------------------------------------

Init ==
    /\ \E base \in BaseBoards :
          \/ \E noise \in NoiseMaps : predictions = Batch(base, noise)
          \/ \E n \in Lengths : predictions = Resize(Batch(base, <<>>), n)
    /\ isFlipped \in BOOLEAN
    /\ pc = "start"
    /\ board = EmptyGrid
    /\ boardProbs = EmptyGrid
    /\ warnings = <<>>
    /\ changed = TRUE
    /\ passes = 0
    /\ cellsBuilt = 0
    /\ fen = <<>>
    /\ DetIdle
    /\ CannyIdle
    /\ GridIdle
    /\ AppIdle

\* confirmGrid: isFlipped = detectOrientation(currentPredictions); reading
\* predictions[i] past the end of a short batch throws
DetectOrientation ==
    /\ pc = "start"
    /\ IF Len(predictions) >= 64
       THEN /\ isFlipped' = detectOrientation(predictions)
            /\ pc' = "oriented"
       ELSE /\ pc' = "orientError"
            /\ UNCHANGED isFlipped
    /\ UNCHANGED <<predictions, board, boardProbs, warnings, changed, passes, cellsBuilt, fen>>
    /\ UNCHANGED <<detVars, cannyVars, gridVars, appVars>>

\* buildFEN, the construction of board and boardProbs from the batch
BuildGrid ==
    /\ pc \in {"start", "oriented"}
    /\ cellsBuilt' = cellsPushed(predictions)
    /\ board' = gridOfClasses(predictions, cellsBuilt')
    /\ boardProbs' = gridOfProbs(predictions, cellsBuilt')
    /\ pc' = IF cellsBuilt' = 64 THEN "grid" ELSE "error"
    /\ UNCHANGED <<predictions, isFlipped, warnings, changed, passes, fen>>
    /\ UNCHANGED <<detVars, cannyVars, gridVars, appVars>>

\* buildFEN, if (isFlipped) reverse rows and columns of both grids
FlipGrid ==
    /\ pc = "grid"
    /\ isFlipped
    /\ board' = reverseGrid(board)
    /\ boardProbs' = reverseGrid(boardProbs)
    /\ pc' = "flipped"
    /\ UNCHANGED <<predictions, isFlipped, warnings, changed, passes, cellsBuilt, fen>>
    /\ UNCHANGED <<detVars, cannyVars, gridVars, appVars>>

\* validateAndCorrect, Rule 1
Rule1Step ==
    /\ \/ pc = "grid" /\ ~isFlipped
       \/ pc = "flipped"
    /\ LET r == Rule1(board, boardProbs, <<>>)
       IN  /\ board' = r.board
           /\ warnings' = r.warnings
    /\ pc' = "rule2"
    /\ UNCHANGED <<predictions, isFlipped, boardProbs, changed, passes, cellsBuilt, fen>>
    /\ UNCHANGED <<detVars, cannyVars, gridVars, appVars>>

\* validateAndCorrect, Rule 2
Rule2Step ==
    /\ pc = "rule2"
    /\ LET r == Rule2(board, boardProbs, warnings)
       IN  /\ board' = r.board
           /\ warnings' = r.warnings
    /\ changed' = TRUE
    /\ passes' = 0
    /\ pc' = "rule3"
    /\ UNCHANGED <<predictions, isFlipped, boardProbs, cellsBuilt, fen>>
    /\ UNCHANGED <<detVars, cannyVars, gridVars, appVars>>

\* validateAndCorrect, one iteration of the Rule 3 while (changed) loop;
\* passes counts the iterations run so far
Rule3Step ==
    /\ pc = "rule3"
    /\ changed
    /\ passes < MaxPasses
    /\ passes' = passes + 1
    /\ LET r == Rule3Pass(board, boardProbs, warnings)
       IN  /\ board' = r.board
           /\ warnings' = r.warnings
           /\ changed' = r.changed
    /\ UNCHANGED <<predictions, isFlipped, pc, boardProbs, cellsBuilt, fen>>
    /\ UNCHANGED <<detVars, cannyVars, gridVars, appVars>>

\* buildFEN, serialization of the corrected grid and return
Serialize ==
    /\ pc = "rule3"
    /\ ~changed
    /\ fen' = serialize(board)
    /\ pc' = "done"
    /\ UNCHANGED <<predictions, isFlipped, board, boardProbs, warnings, changed, passes, cellsBuilt>>
    /\ UNCHANGED <<detVars, cannyVars, gridVars, appVars>>

Next ==
    \/ DetectOrientation
    \/ BuildGrid
    \/ FlipGrid
    \/ Rule1Step
    \/ Rule2Step
    \/ Rule3Step
    \/ Serialize

Spec == Init /\ [][Next]_vars

\* ------------------------------------------------------------------------
\* Board detection: findBoardRect and refineBoardRect
\*
\* The image enters findBoardRect only through chessboardScore(pixels, w,
\* rect).  The canvas carries its dimensions and the score its pixels give
\* to a rectangle: peakScore to the rectangle peak, base to any other, and
\* NaN to a rectangle whose samples run past the pixel buffer.  The edge map
\* of refineBoardRect is given by the columns and the rows on which every
\* pixel is an edge.  Tile sizes are counted in 1/160 pixel, in which
\* 0.85 * width / 8 + 0.5 * j is a whole number.
\* ------------------------------------------------------------------------

Min(a, b) == IF a < b THEN a ELSE b

Max(a, b) == IF a > b THEN a ELSE b

\* the value of a sum that read pixels[idx] past the end of the buffer; the
\* scores chessboardScore computes from pixels are never negative
NaN == -1

sizeSteps == 10

posSteps == 12

\* the largest centered square
centeredRect(w, h) ==
    LET size == Min(w, h)
    IN  [x |-> (w - size) \div 2, y |-> (h - size) \div 2,
         width |-> size, height |-> size]

\* s = Math.floor(minSize + (size - minSize) * si / sizeSteps)
sweepSize(w, h, si) ==
    LET size == Min(w, h)
        minSize == size \div 2
    IN  (minSize * sizeSteps + (size - minSize) * si) \div sizeSteps

sweepRect_FullRange(w, h, si, xi, yi) ==
    LET s == sweepSize(w, h, si)
    IN  [x |-> (w * xi) \div posSteps, y |-> (h * yi) \div posSteps,
         width |-> s, height |-> s]

\* the candidate of size step si and position steps xi, yi
sweepRect(w, h, si, xi, yi) ==
    LET s == sweepSize(w, h, si)
        xRange == w - s
        yRange == h - s
    IN  [x |-> (xRange * xi) \div posSteps, y |-> (yRange * yi) \div posSteps,
         width |-> s, height |-> s]

\* the eight sample points of a tile, in hundredths of the tile
sampleOffsets ==
    << <<15, 15>>, <<85, 15>>, <<15, 85>>, <<85, 85>>,
       <<50, 15>>, <<50, 85>>, <<15, 50>>, <<85, 50>> >>

\* Math.round(origin + (k + d / 100) * (side / 8))
samplePos(origin, side, k, d) == origin + ((k * 100 + d) * side + 400) \div 800

\* some sample passes the test px < 0 || py < 0 || px >= imgW with a row
\* py >= height, so that pixels[idx] is undefined.  px grows with the column
\* and with dx, py with the row and with dy: there is such a sample iff the
\* sample of column 0 and row 7 at the offset (0.15, 0.85) is one.
readsPastEnd(c, r) ==
    /\ samplePos(r.x, r.width, 0, sampleOffsets[3][1]) < c.width
    /\ samplePos(r.y, r.height, 7, sampleOffsets[3][2]) >= c.height

chessboardScore(c, r) ==
    IF readsPastEnd(c, r) THEN NaN
    ELSE IF r = c.peak THEN c.peakScore ELSE c.base

RECURSIVE sweepLoopY_LastWins(_, _, _, _, _)
sweepLoopY_LastWins(c, si, xi, yi, acc) ==
    IF yi > posSteps THEN acc
    ELSE LET r == sweepRect(c.width, c.height, si, xi, yi)
             raw == chessboardScore(c, r)
         IN  IF raw * r.width >= acc.bestScore /\ raw # NaN
             THEN sweepLoopY_LastWins(c, si, xi, yi + 1,
                      [bestScore |-> raw * r.width, bestRect |-> r])
             ELSE sweepLoopY_LastWins(c, si, xi, yi + 1, acc)

\* the sweep, innermost loop: score = chessboardScore * (s / size) is kept in
\* units of 1 / size; a score that is NaN is greater than nothing
RECURSIVE sweepLoopY(_, _, _, _, _)
sweepLoopY(c, si, xi, yi, acc) ==
    IF yi > posSteps THEN acc
    ELSE LET r == sweepRect(c.width, c.height, si, xi, yi)
             raw == chessboardScore(c, r)
         IN  IF raw * r.width > acc.bestScore /\ raw # NaN
             THEN sweepLoopY(c, si, xi, yi + 1,
                      [bestScore |-> raw * r.width, bestRect |-> r])
             ELSE sweepLoopY(c, si, xi, yi + 1, acc)

\* the loop over xi; what the inner loop returns is acc itself unless it
\* found a greater score
RECURSIVE sweepLoopX(_, _, _, _)
sweepLoopX(c, si, xi, acc) ==
    IF xi > posSteps THEN acc
    ELSE LET column == sweepLoopY(c, si, xi, 0, acc)
         IN  IF column.bestScore > acc.bestScore
             THEN sweepLoopX(c, si, xi + 1, column)
             ELSE sweepLoopX(c, si, xi + 1, acc)

\* the loop over si, likewise
RECURSIVE sweepLoopSize(_, _, _)
sweepLoopSize(c, si, acc) ==
    IF si > sizeSteps THEN acc
    ELSE LET layer == sweepLoopX(c, si, 0, acc)
         IN  IF layer.bestScore > acc.bestScore
             THEN sweepLoopSize(c, si + 1, layer)
             ELSE sweepLoopSize(c, si + 1, acc)

\* the rectangles the sweep passes to chessboardScore, in order
sweepOrder(c) ==
    [n \in 1..((sizeSteps + 1) * (posSteps + 1) * (posSteps + 1)) |->
        sweepRect(c.width, c.height,
                  (n - 1) \div ((posSteps + 1) * (posSteps + 1)),
                  ((n - 1) \div (posSteps + 1)) % (posSteps + 1),
                  (n - 1) % (posSteps + 1))]

findBoardRect_StrictThreshold(c) ==
    LET centered == centeredRect(c.width, c.height)
        first == chessboardScore(c, centered)
    IN  IF first # NaN /\ first > 40
        THEN [rect |-> centered, scored |-> <<centered>>]
        ELSE [rect |-> sweepLoopSize(c, 0,
                          [bestScore |-> -1 * Min(c.width, c.height),
                           bestRect |-> centered]).bestRect,
              scored |-> <<centered>> \o sweepOrder(c)]

\* findBoardRect: the rectangle returned and the rectangles scored
findBoardRect(c) ==
    LET centered == centeredRect(c.width, c.height)
        first == chessboardScore(c, centered)
    IN  IF first # NaN /\ first >= 40
        THEN [rect |-> centered, scored |-> <<centered>>]
        ELSE [rect |-> sweepLoopSize(c, 0,
                          [bestScore |-> -1 * Min(c.width, c.height),
                           bestRect |-> centered]).bestRect,
              scored |-> <<centered>> \o sweepOrder(c)]

STRONG == 255

\* edges[y * imgW + x]
edgeAt(e, x, y) == IF x \in e.cols \/ y \in e.rows THEN STRONG ELSE 0

\* Math.round(origin + (k + f / 10) * tile), the scan line at fraction
\* f / 10 of tile k
scanPos(origin, tile, k, f) == origin + ((10 * k + f) * tile + 800) \div 1600

\* hGrad[x]: the edge map summed along the scan lines at 0.1 and 0.9 of each
\* nominal tile row that fall into the image
RECURSIVE hGrad(_, _, _, _, _)
hGrad(c, e, r, x, n) ==
    IF n >= 16 THEN 0
    ELSE LET sy == scanPos(r.y, 20 * r.height, n \div 2, IF n % 2 = 0 THEN 1 ELSE 9)
         IN  (IF sy < 0 \/ sy >= c.height THEN 0 ELSE edgeAt(e, x, sy))
             + hGrad(c, e, r, x, n + 1)

\* vGrad[y]: the same along the columns of the tiles found horizontally
RECURSIVE vGrad(_, _, _, _, _, _)
vGrad(c, e, bestOffset, bestTW, y, n) ==
    IF n >= 16 THEN 0
    ELSE LET sx == scanPos(bestOffset, bestTW, n \div 2, IF n % 2 = 0 THEN 1 ELSE 9)
         IN  (IF sx < 0 \/ sx >= c.width THEN 0 ELSE edgeAt(e, sx, y))
             + vGrad(c, e, bestOffset, bestTW, y, n + 1)

\* the score of offset off and tile size tw: the accumulator (a sequence,
\* position p at index p + 1) summed over the five positions around each of
\* the seven inner grid lines
RECURSIVE lineScore(_, _, _, _, _)
lineScore(grad, imgLen, off, tw, n) ==
    IF n >= 35 THEN 0
    ELSE LET p == off + (((1 + n \div 5) * tw + 80) \div 160) + ((n % 5) - 2)
         IN  (IF p >= 0 /\ p < imgLen THEN grad[p + 1] ELSE 0)
             + lineScore(grad, imgLen, off, tw, n + 1)

RECURSIVE offsetLoop(_, _, _, _, _, _)
offsetLoop(grad, imgLen, tw, off, searchMax, acc) ==
    IF off > searchMax THEN acc
    ELSE LET score == lineScore(grad, imgLen, off, tw, 0)
         IN  IF score > acc.score
             THEN offsetLoop(grad, imgLen, tw, off + 1, searchMax,
                      [score |-> score, offset |-> off, tile |-> tw])
             ELSE offsetLoop(grad, imgLen, tw, off + 1, searchMax, acc)

twStep == 80

RECURSIVE tileLoop_NoImageBound(_, _, _, _, _, _, _)
tileLoop_NoImageBound(grad, imgLen, pos, halfTile, tw, maxTW, acc) ==
    IF tw > maxTW THEN acc
    ELSE tileLoop_NoImageBound(grad, imgLen, pos, halfTile, tw + twStep, maxTW,
             offsetLoop(grad, imgLen, tw, Max(0, pos - halfTile),
                        pos + halfTile, acc))

\* the search over tile size and offset on one axis
RECURSIVE tileLoop(_, _, _, _, _, _, _)
tileLoop(grad, imgLen, pos, halfTile, tw, maxTW, acc) ==
    IF tw > maxTW THEN acc
    ELSE LET searchMin == Max(0, pos - halfTile)
             searchMax == Min(imgLen - (tw + 10) \div 20, pos + halfTile)
         IN  tileLoop(grad, imgLen, pos, halfTile, tw + twStep, maxTW,
                      offsetLoop(grad, imgLen, tw, searchMin, searchMax, acc))

\* refineBoardRect: the alignment found on each axis and the result
refineBoardRect(c, e, r) ==
    LET nomTileW == 20 * r.width
        nomTileH == 20 * r.height
        halfTile == Min(nomTileW, nomTileH) \div 320
        hAcc == <<>> \o [i \in 1..c.width |-> hGrad(c, e, r, i - 1, 0)]
        h == tileLoop(hAcc, c.width, r.x, halfTile, 17 * r.width, 23 * r.width,
                      [score |-> -1, offset |-> r.x, tile |-> nomTileW])
        vAcc == <<>> \o [i \in 1..c.height |-> vGrad(c, e, h.offset, h.tile, i - 1, 0)]
        v == tileLoop(vAcc, c.height, r.y, halfTile, 17 * r.height, 23 * r.height,
                      [score |-> -1, offset |-> r.y, tile |-> nomTileH])
        finalW == (h.tile + 10) \div 20
        finalH == (v.tile + 10) \div 20
        finalSize == Min(finalW, finalH)
    IN  [bestOffset |-> h.offset, bestTW |-> h.tile,
         bestYOffset |-> v.offset, bestTH |-> v.tile,
         result |-> [x |-> h.offset, y |-> v.offset,
                     width |-> finalSize, height |-> finalSize]]

\* the images: width and height
ImageSizes == {<<1, 1>>, <<2, 4>>, <<32, 16>>, <<32, 48>>, <<64, 64>>}

\* the scores their pixels give
BaseScores == {0, 32, 40}

PeakScores == {39, 40, 64}

\* the candidates (si, xi, yi) that can stand out
PeakSteps == {<<0, 0, 0>>, <<0, 12, 12>>, <<5, 3, 7>>, <<10, 6, 6>>}

Canvases ==
    {[width |-> d[1], height |-> d[2], base |-> b,
      peak |-> sweepRect(d[1], d[2], p[1], p[2], p[3]), peakScore |-> v] :
        d \in ImageSizes, b \in BaseScores, p \in PeakSteps, v \in PeakScores}

\* the lines of an edge map: every m-th column or row, none for m = 0
EdgeLines(n, m) == IF m = 0 THEN {} ELSE {k \in 0..(n - 1) : k % m = 0}

\* the pitch of the edge columns and of the edge rows
EdgePitches == {<<0, 0>>, <<4, 3>>, <<7, 4>>}

EdgeMaps(c) ==
    {[cols |-> EdgeLines(c.width, q[1]), rows |-> EdgeLines(c.height, q[2])] :
        q \in EdgePitches}

\* detectAndSegment / getBoardRect: the image is drawn to the working canvas
DetectInit ==
    /\ canvas \in Canvases
    /\ pc = "image"
    /\ edges = <<>> /\ scored = <<>> /\ rough = <<>>
    /\ alignment = <<>> /\ rect = <<>>
    /\ tiles = <<>>
    /\ FenIdle
    /\ CannyIdle
    /\ GridIdle
    /\ AppIdle

\* const rough = findBoardRect(canvas)
FindBoardRect ==
    /\ pc = "image"
    /\ LET r == findBoardRect(canvas)
       IN  /\ rough' = r.rect
           /\ scored' = r.scored
    /\ pc' = "rough"
    /\ UNCHANGED <<canvas, edges, alignment, rect, tiles>>
    /\ UNCHANGED <<fenVars, cannyVars, gridVars, appVars>>

\* refineBoardRect(canvas, rough), on the edge map canny computes
RefineBoardRect ==
    /\ pc = "rough"
    /\ \E e \in EdgeMaps(canvas) :
          LET r == refineBoardRect(canvas, e, rough)
          IN  /\ edges' = e
              /\ alignment' = [bestOffset |-> r.bestOffset, bestTW |-> r.bestTW,
                               bestYOffset |-> r.bestYOffset, bestTH |-> r.bestTH]
              /\ rect' = r.result
    /\ pc' = "refined"
    /\ UNCHANGED <<canvas, scored, rough, tiles>>
    /\ UNCHANGED <<fenVars, cannyVars, gridVars, appVars>>

\* extractTiles(canvas, rect): the source region of each tile, in the order
\* the tiles are pushed; positions and sizes in eighths of a pixel
RECURSIVE tilesLoop_FileMajor(_, _, _, _)
tilesLoop_FileMajor(r, file, rank, acc) ==
    IF file >= 8 THEN acc
    ELSE IF rank >= 8 THEN tilesLoop_FileMajor(r, file + 1, 0, acc)
    ELSE tilesLoop_FileMajor(r, file, rank + 1,
                   Append(acc, [sx |-> 8 * r.x + file * r.width,
                                sy |-> 8 * r.y + rank * r.height,
                                sw |-> r.width, sh |-> r.height]))

RECURSIVE tilesLoop(_, _, _, _)
tilesLoop(r, rank, file, acc) ==
    IF rank >= 8 THEN acc
    ELSE IF file >= 8 THEN tilesLoop(r, rank + 1, 0, acc)
    ELSE tilesLoop(r, rank, file + 1,
                   Append(acc, [sx |-> 8 * r.x + file * r.width,
                                sy |-> 8 * r.y + rank * r.height,
                                sw |-> r.width, sh |-> r.height]))

extractTiles(c, r) == tilesLoop(r, 0, 0, <<>>)

\* return extractTiles(canvas, rect)
ExtractTiles ==
    /\ pc = "refined"
    /\ tiles' = extractTiles(canvas, rect)
    /\ pc' = "tiles"
    /\ UNCHANGED <<canvas, edges, scored, rough, alignment, rect>>
    /\ UNCHANGED <<fenVars, cannyVars, gridVars, appVars>>

DetectNext ==
    \/ FindBoardRect
    \/ RefineBoardRect
    \/ ExtractTiles

DetectSpec == DetectInit /\ [][DetectNext]_vars

\* ------------------------------------------------------------------------
\* Canny, step 4: hysteresis thresholding
\* ------------------------------------------------------------------------

lowT == 30

highT == 80

WEAK == 128

\* edge[i] after the thresholds: STRONG, WEAK or 0
thresholdEdges(mags) ==
    [i \in 1..Len(mags) |-> IF mags[i] >= highT THEN STRONG
                            ELSE IF mags[i] >= lowT THEN WEAK ELSE 0]

\* an interior pixel i = y * w + x has a STRONG pixel among its neighbours
strongNeighbour_FourConnected(e, w, i) ==
    \E d \in {-w, -1, 1, w} : e[i + d + 1] = STRONG

strongNeighbour(e, w, i) ==
    \E d \in {-w - 1, -w, -w + 1, -1, 1, w - 1, w, w + 1} : e[i + d + 1] = STRONG

\* one sweep of the linking loop over the interior pixels, in place: a WEAK
\* pixel with a STRONG neighbour becomes STRONG and sets changed
RECURSIVE linkLoop_FlagsWeak(_, _, _, _, _, _)
linkLoop_FlagsWeak(e, w, h, y, x, ch) ==
    IF y >= h - 1 THEN [edge |-> e, changed |-> ch]
    ELSE IF x >= w - 1 THEN linkLoop_FlagsWeak(e, w, h, y + 1, 1, ch)
    ELSE LET i == y * w + x
         IN  IF e[i + 1] # WEAK THEN linkLoop_FlagsWeak(e, w, h, y, x + 1, ch)
             ELSE IF strongNeighbour(e, w, i)
             THEN linkLoop_FlagsWeak([e EXCEPT ![i + 1] = STRONG], w, h, y, x + 1, TRUE)
             ELSE linkLoop_FlagsWeak(e, w, h, y, x + 1, TRUE)

RECURSIVE linkLoop(_, _, _, _, _, _)
linkLoop(e, w, h, y, x, ch) ==
    IF y >= h - 1 THEN [edge |-> e, changed |-> ch]
    ELSE IF x >= w - 1 THEN linkLoop(e, w, h, y + 1, 1, ch)
    ELSE LET i == y * w + x
         IN  IF e[i + 1] # WEAK THEN linkLoop(e, w, h, y, x + 1, ch)
             ELSE IF strongNeighbour(e, w, i)
             THEN linkLoop([e EXCEPT ![i + 1] = STRONG], w, h, y, x + 1, TRUE)
             ELSE linkLoop(e, w, h, y, x + 1, ch)

\* the pixels that are not STRONG are cleared
suppressWeak(e) == [i \in 1..Len(e) |-> IF e[i] # STRONG THEN 0 ELSE e[i]]

\* image sizes (w, h) and the magnitudes non-maximum suppression leaves:
\* it writes only the interior, the border stays 0
CannySizes == {<<5, 4>>, <<7, 3>>}

NmsValues == {29, 30, 80}

isBorder(w, h, i) ==
    \/ i \div w = 0 \/ i \div w = h - 1
    \/ i % w = 0 \/ i % w = w - 1

NmsArrays(w, h) ==
    LET interior == {i \in 0..(w * h - 1) : ~isBorder(w, h, i)}
    IN  {[i \in 1..(w * h) |-> IF (i - 1) \in interior THEN f[i - 1] ELSE 0] :
            f \in [interior -> NmsValues]}

CannyInit ==
    /\ \E s \in CannySizes :
          /\ dims = s
          /\ nms \in NmsArrays(s[1], s[2])
    /\ edge = <<>>
    /\ sweeps = 0
    /\ changed = TRUE
    /\ pc = "nms"
    /\ predictions = <<>>
    /\ isFlipped = FALSE
    /\ board = EmptyGrid
    /\ boardProbs = EmptyGrid
    /\ warnings = <<>>
    /\ passes = 0
    /\ cellsBuilt = 0
    /\ fen = <<>>
    /\ DetIdle
    /\ GridIdle
    /\ AppIdle

cannyFrame == <<predictions, isFlipped, board, boardProbs, warnings, passes,
                cellsBuilt, fen, detVars, gridVars, appVars>>

\* the threshold loop, then let changed = true
ThresholdEdges ==
    /\ pc = "nms"
    /\ edge' = thresholdEdges(nms)
    /\ changed' = TRUE
    /\ pc' = "linking"
    /\ UNCHANGED <<nms, dims, sweeps>>
    /\ UNCHANGED cannyFrame

\* one iteration of while (changed)
LinkSweep ==
    /\ pc = "linking"
    /\ changed
    /\ LET r == linkLoop(edge, dims[1], dims[2], 1, 1, FALSE)
       IN  /\ edge' = r.edge
           /\ changed' = r.changed
    /\ sweeps' = sweeps + 1
    /\ UNCHANGED <<nms, dims, pc>>
    /\ UNCHANGED cannyFrame

\* the loop has ended: suppress the remaining weak edges, return edge
SuppressWeak ==
    /\ pc = "linking"
    /\ ~changed
    /\ edge' = suppressWeak(edge)
    /\ pc' = "edges"
    /\ UNCHANGED <<nms, dims, sweeps, changed>>
    /\ UNCHANGED cannyFrame

CannyNext ==
    \/ ThresholdEdges
    \/ LinkSweep
    \/ SuppressWeak

CannySpec == CannyInit /\ [][CannyNext]_vars

\* ------------------------------------------------------------------------
\* The grid editor (gridEditor.js): 9 vertical and 9 horizontal lines
\* ------------------------------------------------------------------------

HIT_THRESHOLD == 8

MIN_GAP == 6

\* image positions are counted in eighths of a pixel, the step
\* rect.width / 8 of a line position; display positions likewise
Unit == 8

\* enableGridEditor: 9 evenly spaced lines from the rect, line i at
\* rect.x + (rect.width / 8) * i
evenLines(origin, side) == [i \in 1..9 |-> Unit * origin + side * (i - 1)]

\* a display position d lies at distance |d - line * scale| from a line;
\* with scale = num / den this is compared after multiplying by den
lineDist(d, line, s) ==
    LET v == d * s.den - line * s.num
    IN  IF v < 0 THEN -v ELSE v

corners == <<[xi |-> 0, yi |-> 0], [xi |-> 8, yi |-> 0],
             [xi |-> 0, yi |-> 8], [xi |-> 8, yi |-> 8]>>

\* hitTest, corners: the first closest corner nearer than
\* cornerThreshold + 1 display pixels; distances are compared squared
RECURSIVE cornerLoop(_, _, _, _, _, _, _, _)
cornerLoop(xl, yl, s, dx, dy, k, bestCorner, bestCornerDist2) ==
    IF k > 4 THEN bestCorner
    ELSE LET a  == lineDist(dx, xl[corners[k].xi + 1], s)
             b  == lineDist(dy, yl[corners[k].yi + 1], s)
             d2 == a * a + b * b
         IN  IF d2 < bestCornerDist2
             THEN cornerLoop(xl, yl, s, dx, dy, k + 1,
                             [axis |-> "corner", index |-> -1,
                              xi |-> corners[k].xi, yi |-> corners[k].yi], d2)
             ELSE cornerLoop(xl, yl, s, dx, dy, k + 1, bestCorner, bestCornerDist2)

\* hitTest, lines of one axis: the first line strictly nearer than bestDist
RECURSIVE lineLoop(_, _, _, _, _, _)
lineLoop(lines, s, d, axis, i, acc) ==
    IF i > 8 THEN acc
    ELSE LET dist == lineDist(d, lines[i + 1], s)
         IN  IF dist < acc.bestDist
             THEN lineLoop(lines, s, d, axis, i + 1,
                           [best |-> [axis |-> axis, index |-> i, xi |-> -1, yi |-> -1],
                            bestDist |-> dist])
             ELSE lineLoop(lines, s, d, axis, i + 1, acc)

\* hitTest(displayX, displayY): a corner, else the closest line, else null
hitTest(xl, yl, s, dx, dy) ==
    LET cornerThreshold == (HIT_THRESHOLD * 3) \div 2
        cornerLimit == (cornerThreshold + 1) * Unit * s.den
        bestCorner == cornerLoop(xl, yl, s, dx, dy, 1, Null, cornerLimit * cornerLimit)
        reach == HIT_THRESHOLD * Unit * s.den
        start == [best |-> Null, bestDist |-> (HIT_THRESHOLD + 1) * Unit * s.den]
        inY == /\ dy * s.den >= yl[1] * s.num - reach
               /\ dy * s.den <= yl[9] * s.num + reach
        inX == /\ dx * s.den >= xl[1] * s.num - reach
               /\ dx * s.den <= xl[9] * s.num + reach
        afterX == IF inY THEN lineLoop(xl, s, dx, "x", 0, start) ELSE start
        afterY == IF inX THEN lineLoop(yl, s, dy, "y", 0, afterX) ELSE afterX
    IN  IF bestCorner # Null THEN bestCorner ELSE afterY.best

\* applyDrag, one line: the position clamped between the neighbours, a gap
\* of MIN_GAP apart, and the image edge
dragLine_NoGap(lines, index, limit, pos) ==
    LET lo == IF index = 0 THEN 0 ELSE lines[index]
        hi == IF index = 8 THEN limit ELSE lines[index + 2]
    IN  [lines EXCEPT ![index + 1] = Max(lo, Min(hi, pos))]

dragLine_ShiftsGrid(lines, index, limit, pos) ==
    LET lo == IF index = 0 THEN 0 ELSE lines[index] + MIN_GAP * Unit
        hi == IF index = 8 THEN limit ELSE lines[index + 2] - MIN_GAP * Unit
        to == Max(lo, Min(hi, pos))
    IN  [i \in 1..9 |-> IF index = 0 THEN lines[i] + (to - lines[1]) ELSE
                        IF i = index + 1 THEN to ELSE lines[i]]

dragLine(lines, index, limit, pos) ==
    LET lo == IF index = 0 THEN 0 ELSE lines[index] + MIN_GAP * Unit
        hi == IF index = 8 THEN limit ELSE lines[index + 2] - MIN_GAP * Unit
    IN  [lines EXCEPT ![index + 1] = Max(lo, Min(hi, pos))]

\* applyDrag(hit, displayPos)
applyDrag(hit, xl, yl, image, s, dx, dy) ==
    LET imgW == Unit * image.width
        imgH == Unit * image.height
        imgX == (dx * s.den) \div s.num
        imgY == (dy * s.den) \div s.num
    IN  IF hit.axis = "corner"
        THEN [xLines |-> dragLine(xl, hit.xi, imgW, imgX),
              yLines |-> dragLine(yl, hit.yi, imgH, imgY)]
        ELSE IF hit.axis = "x"
        THEN [xLines |-> dragLine(xl, hit.index, imgW, imgX), yLines |-> yl]
        ELSE [xLines |-> xl, yLines |-> dragLine(yl, hit.index, imgH, imgY)]

\* the editor's sessions: an image, the display scale processImage computes
\* for it, min(700 / width, 700 / height, 1), and the board rectangle
GridCases == {
    [image |-> [width |-> 64, height |-> 64], scale |-> [num |-> 1, den |-> 1],
     rect |-> [x |-> 0, y |-> 0, width |-> 64, height |-> 64]],
    [image |-> [width |-> 64, height |-> 64], scale |-> [num |-> 1, den |-> 1],
     rect |-> [x |-> 8, y |-> 8, width |-> 48, height |-> 48]],
    [image |-> [width |-> 64, height |-> 64], scale |-> [num |-> 1, den |-> 1],
     rect |-> [x |-> 12, y |-> 12, width |-> 40, height |-> 40]],
    [image |-> [width |-> 1400, height |-> 1400], scale |-> [num |-> 1, den |-> 2],
     rect |-> [x |-> 0, y |-> 0, width |-> 1400, height |-> 1400]] }

\* pointer positions on the canvas, in eighths of a display pixel
MousePositions(image) ==
    IF image.width = 64 THEN {0, 110, 300, 512} \X {0, 300, 512}
                        ELSE {0, 96, 1500, 5600} \X {0, 700, 3000}

\* a touch can also move off the canvas
TouchPositions(image) ==
    MousePositions(image) \cup {<<-80, -80>>, <<Unit * image.width + 80, 0>>}

GridInit ==
    /\ \E c \in GridCases :
          /\ img = c.image
          /\ scale = c.scale
          /\ gridRect = c.rect
          /\ xLines = evenLines(c.rect.x, c.rect.width)
          /\ yLines = evenLines(c.rect.y, c.rect.height)
    /\ dragging = Null
    /\ moves = 0
    /\ FenIdle /\ pc = "grid editor"
    /\ DetIdle
    /\ CannyIdle
    /\ AppIdle

gridFrame == <<fenVars, pc, detVars, cannyVars, appVars>>

\* onMouseDown: a hit starts a drag
MouseDown ==
    /\ \E pos \in MousePositions(img) :
          LET hit == hitTest(xLines, yLines, scale, pos[1], pos[2])
          IN  dragging' = IF hit # Null THEN hit ELSE dragging
    /\ UNCHANGED <<xLines, yLines, img, scale, gridRect, moves>>
    /\ UNCHANGED gridFrame

\* onMouseMove: while dragging, applyDrag
MouseMove ==
    /\ dragging # Null
    /\ moves < MaxMoves
    /\ \E pos \in MousePositions(img) :
          LET r == applyDrag(dragging, xLines, yLines, img, scale, pos[1], pos[2])
          IN  /\ xLines' = r.xLines
              /\ yLines' = r.yLines
    /\ moves' = moves + 1
    /\ UNCHANGED <<dragging, img, scale, gridRect>>
    /\ UNCHANGED gridFrame

\* onMouseUp
MouseUp ==
    /\ dragging' = Null
    /\ UNCHANGED <<xLines, yLines, img, scale, gridRect, moves>>
    /\ UNCHANGED gridFrame

\* onMouseLeave
MouseLeave ==
    /\ dragging' = Null
    /\ UNCHANGED <<xLines, yLines, img, scale, gridRect, moves>>
    /\ UNCHANGED gridFrame

\* onTouchStart
TouchStart ==
    /\ \E pos \in MousePositions(img) :
          LET hit == hitTest(xLines, yLines, scale, pos[1], pos[2])
          IN  dragging' = IF hit # Null THEN hit ELSE dragging
    /\ UNCHANGED <<xLines, yLines, img, scale, gridRect, moves>>
    /\ UNCHANGED gridFrame

\* onTouchMove: nothing unless dragging, else applyDrag
TouchMove ==
    /\ dragging # Null
    /\ moves < MaxMoves
    /\ \E pos \in TouchPositions(img) :
          LET r == applyDrag(dragging, xLines, yLines, img, scale, pos[1], pos[2])
          IN  /\ xLines' = r.xLines
              /\ yLines' = r.yLines
    /\ moves' = moves + 1
    /\ UNCHANGED <<dragging, img, scale, gridRect>>
    /\ UNCHANGED gridFrame

\* onTouchEnd
TouchEnd ==
    /\ dragging' = Null
    /\ UNCHANGED <<xLines, yLines, img, scale, gridRect, moves>>
    /\ UNCHANGED gridFrame

GridNext ==
    \/ MouseDown
    \/ MouseMove
    \/ MouseUp
    \/ MouseLeave
    \/ TouchStart
    \/ TouchMove
    \/ TouchEnd

GridSpec == GridInit /\ [][GridNext]_vars

\* ------------------------------------------------------------------------
\* The page: image loading, grid confirmation, board editing (app.js)
\* ------------------------------------------------------------------------

\* buildFEN(predictions, isFlipped): the returned { fen, warnings }, and the
\* predictions array as the call leaves it
buildFEN_ReversesInput(preds, flipped) ==
    LET g  == gridOfClasses(preds, 64)
        p  == gridOfProbs(preds, 64)
        b  == IF flipped THEN reverseGrid(g) ELSE g
        bp == IF flipped THEN reverseGrid(p) ELSE p
        v  == validateAndCorrect(b, bp)
    IN  [fen |-> serialize(v.board), warnings |-> v.warnings,
         predictions |-> IF flipped THEN [i \in 1..64 |-> preds[65 - i]] ELSE preds]

buildFEN(preds, flipped) ==
    LET g  == gridOfClasses(preds, 64)
        p  == gridOfProbs(preds, 64)
        b  == IF flipped THEN reverseGrid(g) ELSE g
        bp == IF flipped THEN reverseGrid(p) ELSE p
        v  == validateAndCorrect(b, bp)
    IN  [fen |-> serialize(v.board), warnings |-> v.warnings, predictions |-> preds]

\* s.split(sep), from position i on: the segments of s between the separators
RECURSIVE splitLoop(_, _, _, _)
splitLoop(s, sep, i, cur) ==
    IF i > Len(s) THEN <<cur>>
    ELSE IF s[i] = sep THEN <<cur>> \o splitLoop(s, sep, i + 1, <<>>)
    ELSE splitLoop(s, sep, i + 1, Append(cur, s[i]))

\* ch >= '1' && ch <= '8', and parseInt(ch)
isRunDigit(ch) == ch \in {"1", "2", "3", "4", "5", "6", "7", "8"}

parseInt(ch) ==
    CASE ch = "1" -> 1 [] ch = "2" -> 2 [] ch = "3" -> 3 [] ch = "4" -> 4
      [] ch = "5" -> 5 [] ch = "6" -> 6 [] ch = "7" -> 7 [] ch = "8" -> 8

\* the cells one rank string expands to: a digit is a run of empty cells
RECURSIVE expandRank(_, _, _)
expandRank(rankStr, i, row) ==
    IF i > Len(rankStr) THEN row
    ELSE IF isRunDigit(rankStr[i])
    THEN expandRank(rankStr, i + 1, row \o [k \in 1..parseInt(rankStr[i]) |-> ""])
    ELSE expandRank(rankStr, i + 1, Append(row, rankStr[i]))

\* while (row.length < 8) row.push('')
padRow(row) == IF Len(row) < 8 THEN row \o [k \in 1..(8 - Len(row)) |-> ""] ELSE row

\* fenToBoard(fen): board[rank][file] is row rank + 1, cell file + 1
fenToBoard(f) ==
    LET placement == splitLoop(f, " ", 1, <<>>)[1]
        ranks     == splitLoop(placement, "/", 1, <<>>)
    IN  [r \in 1..8 |->
            padRow(expandRank(IF r <= Len(ranks) THEN ranks[r] ELSE <<>>, 1, <<>>))]

\* one rank of boardToFen: runs of empty cells become their length
RECURSIVE rankLoop_NoFlush(_, _, _, _)
rankLoop_NoFlush(row, file, rankStr, empty) ==
    IF file > 8
    THEN rankStr
    ELSE IF row[file] = ""
    THEN rankLoop_NoFlush(row, file + 1, rankStr, empty + 1)
    ELSE rankLoop_NoFlush(row, file + 1,
                  (IF empty > 0 THEN rankStr \o NumToStr(empty) ELSE rankStr) \o <<row[file]>>, 0)

RECURSIVE rankLoop(_, _, _, _)
rankLoop(row, file, rankStr, empty) ==
    IF file > 8
    THEN IF empty > 0 THEN rankStr \o NumToStr(empty) ELSE rankStr
    ELSE IF row[file] = ""
    THEN rankLoop(row, file + 1, rankStr, empty + 1)
    ELSE rankLoop(row, file + 1,
                  (IF empty > 0 THEN rankStr \o NumToStr(empty) ELSE rankStr) \o <<row[file]>>, 0)

\* boardToFen(board)
boardToFen(b) == join([r \in 1..8 |-> rankLoop(b[r], 1, <<>>, 0)], "/") \o FEN_SUFFIX

\* the images a session can show: file f rotated by d steps
Images == (1..MaxFiles) \X (0..MaxRotations)

ImageBoards == <<StartPos, Endgame, StartPosSwapped, EmptyBoard>>

\* two uncertain white queens next to the queen an image already shows
QueenNoise ==
    LET q == [classIndex |-> IDX_WQ, probs |-> Vec(IDX_WQ, 50, IDX_WR, 40, IDX_WB, 10)]
    IN  [i \in {3, 27} |-> q]

\* classifyBoard(tiles): the 64 predictions the classifier returns for the
\* tiles of an image
classifyBoard(image) ==
    LET k == ((image[1] + image[2] - 1) % 4) + 1
    IN  Batch(ImageBoards[k], IF image[2] = 0 THEN QueenNoise ELSE <<>>)

\* the prediction batches buildFEN can be handed: a classifier result, or one
\* turned end to end
Batches ==
    {classifyBoard(i) : i \in Images}
        \cup {[k \in 1..64 |-> classifyBoard(i)[65 - k]] : i \in Images}

\* buildFEN on these batches, computed once
buildFENOf == [p \in Batches, fl \in BOOLEAN |-> buildFEN(p, fl)]

\* the pieces of the palette that are dragged, and the squares (rank, file)
\* that are dropped on or clicked
DropPieces == {"Q"}

EditSquares == {<<0, 0>>}

AppInit ==
    /\ AppIdle
    /\ FenIdle
    /\ pc = "page"
    /\ DetIdle
    /\ GridIdle
    /\ CannyIdle

\* what the page's handlers never touch
appFrame == <<predictions, pc, board, boardProbs, warnings, changed, passes,
              cellsBuilt, fen, detVars, cannyVars, gridVars>>

\* processFile up to its await: loadImage(file) is started
ProcessFile ==
    /\ Cardinality(tasks) < MaxTasks
    /\ \E f \in 1..MaxFiles : tasks' = tasks \cup {[op |-> "loadImage", img |-> <<f, 0>>]}
    /\ UNCHANGED <<sourceImg, rotationDeg, currentImg, currentPredictions, predictionsImg,
                   boardArray, fenText, gridImg, gridControlsHidden, paletteHidden,
                   calls, flips, isFlipped>>
    /\ UNCHANGED appFrame

\* processFile after loadImage resolves, into applyRotationAndDetect up to
\* its await: the editor is disabled and rotateImage is started
LoadImageDone ==
    /\ \E t \in tasks :
          /\ t.op = "loadImage"
          /\ sourceImg' = t.img[1]
          /\ rotationDeg' = 0
          /\ gridImg' = Null
          /\ tasks' = (tasks \ {t}) \cup {[op |-> "rotateImage", img |-> <<t.img[1], 0>>]}
    /\ UNCHANGED <<currentImg, currentPredictions, predictionsImg, boardArray, fenText,
                   gridControlsHidden, paletteHidden, calls, flips, isFlipped>>
    /\ UNCHANGED appFrame

\* a rotation control: adjustRotation, applyRotationAndDetect up to its await
AdjustRotation ==
    /\ sourceImg # 0
    /\ Cardinality(tasks) < MaxTasks
    /\ \E d \in (0..MaxRotations) \ {rotationDeg} :
          /\ rotationDeg' = d
          /\ tasks' = tasks \cup {[op |-> "rotateImage", img |-> <<sourceImg, d>>]}
    /\ gridImg' = Null
    /\ UNCHANGED <<sourceImg, currentImg, currentPredictions, predictionsImg, boardArray,
                   fenText, gridControlsHidden, paletteHidden, calls, flips, isFlipped>>
    /\ UNCHANGED appFrame

\* processImage(rotated), once rotateImage resolves: the grid editor starts
\* on the image and board editing is switched off
ProcessImage ==
    /\ \E t \in tasks :
          /\ t.op = "rotateImage"
          /\ currentImg' = t.img
          /\ gridImg' = t.img
          /\ tasks' = tasks \ {t}
    /\ gridControlsHidden' = FALSE
    /\ paletteHidden' = TRUE
    /\ boardArray' = Null
    /\ UNCHANGED <<sourceImg, rotationDeg, currentPredictions, predictionsImg, fenText,
                   calls, flips, isFlipped>>
    /\ UNCHANGED appFrame

\* the Confirm button: confirmGrid up to its await, classifyBoard is started
\* on the tiles of currentImg
ConfirmGrid ==
    /\ ~gridControlsHidden
    /\ Cardinality(tasks) < MaxTasks
    /\ gridControlsHidden' = TRUE
    /\ gridImg' = Null
    /\ tasks' = tasks \cup {[op |-> "classifyBoard", img |-> currentImg]}
    /\ UNCHANGED <<sourceImg, rotationDeg, currentImg, currentPredictions, predictionsImg,
                   boardArray, fenText, paletteHidden, calls, flips, isFlipped>>
    /\ UNCHANGED appFrame

\* confirmGrid after classifyBoard resolves: predictions, orientation, FEN,
\* then board editing is switched on
ClassifyDone ==
    /\ \E t \in tasks :
          /\ t.op = "classifyBoard"
          /\ tasks' = tasks \ {t}
          /\ LET preds == classifyBoard(t.img)
                 fl    == detectOrientation(preds)
                 r     == buildFENOf[preds, fl]
             IN  /\ isFlipped' = fl
                 /\ currentPredictions' = r.predictions
                 /\ predictionsImg' = t.img
                 /\ fenText' = r.fen
                 /\ boardArray' = fenToBoard(r.fen)
                 /\ calls' = {[img |-> t.img, isFlipped |-> fl,
                                fen |-> r.fen, warnings |-> r.warnings]}
    /\ paletteHidden' = FALSE
    /\ flips' = 0
    /\ UNCHANGED <<sourceImg, rotationDeg, currentImg, gridImg, gridControlsHidden>>
    /\ UNCHANGED appFrame

\* the Flip button: isFlipped = !isFlipped; updateFEN()
FlipClick ==
    /\ isFlipped' = ~isFlipped
    /\ IF currentPredictions = Null
       THEN UNCHANGED <<currentPredictions, fenText, calls, flips>>
       ELSE LET r == buildFENOf[currentPredictions, isFlipped']
            IN  /\ currentPredictions' = r.predictions
                /\ fenText' = r.fen
                /\ calls' = calls \cup {[img |-> predictionsImg, isFlipped |-> isFlipped',
                                         fen |-> r.fen, warnings |-> r.warnings]}
                /\ flips' = Min(flips + 1, 2)
    /\ UNCHANGED <<sourceImg, rotationDeg, currentImg, predictionsImg, boardArray,
                   gridImg, gridControlsHidden, paletteHidden, tasks>>
    /\ UNCHANGED appFrame

\* boardArray[rank][file] = piece
setCell(b, rank, file, piece) ==
    [b EXCEPT ![rank + 1] = [@ EXCEPT ![file + 1] = piece]]

\* a palette piece dropped on a square of the preview board
PaletteDrop ==
    /\ boardArray # Null
    /\ \E piece \in DropPieces, sq \in EditSquares :
          /\ boardArray' = setCell(boardArray, sq[1], sq[2], piece)
          /\ fenText' = boardToFen(boardArray')
    /\ UNCHANGED <<sourceImg, rotationDeg, currentImg, currentPredictions, predictionsImg,
                   gridImg, gridControlsHidden, paletteHidden, tasks, calls, flips, isFlipped>>
    /\ UNCHANGED appFrame

\* a click on an occupied square of the preview board removes the piece
SquareClick ==
    /\ boardArray # Null
    /\ \E sq \in EditSquares :
          /\ boardArray[sq[1] + 1][sq[2] + 1] # ""
          /\ boardArray' = setCell(boardArray, sq[1], sq[2], "")
          /\ fenText' = boardToFen(boardArray')
    /\ UNCHANGED <<sourceImg, rotationDeg, currentImg, currentPredictions, predictionsImg,
                   gridImg, gridControlsHidden, paletteHidden, tasks, calls, flips, isFlipped>>
    /\ UNCHANGED appFrame

AppNext ==
    \/ ProcessFile
    \/ LoadImageDone
    \/ AdjustRotation
    \/ ProcessImage
    \/ ConfirmGrid
    \/ ClassifyDone
    \/ FlipClick
    \/ PaletteDrop
    \/ SquareClick

AppSpec == AppInit /\ [][AppNext]_vars

\* ------------------------------------------------------------------------
\* Properties
\* ------------------------------------------------------------------------

\* validateAndCorrect has returned: its while loop has exited
Returned == pc = "done" \/ (pc = "rule3" /\ ~changed)

\* the squares of a grid holding class c
SquaresWith(b, c) == {sq \in (0..7) \X (0..7) : b[sq[1]][sq[2]] = c}

NumberOf(b, c) == Cardinality(SquaresWith(b, c))

\* some warning of the given rule was issued
Warned(rule) == \E i \in 1..Len(warnings) : warnings[i].rule = rule

\* the grid handed to validateAndCorrect: the batch in row-major order,
\* rotated by 180 degrees when isFlipped
InputGrid ==
    LET g == [rank \in 0..7 |-> [file \in 0..7 |->
                 predictions[rank * 8 + file + 1].classIndex]]
    IN  IF isFlipped
        THEN [rank \in 0..7 |-> [file \in 0..7 |-> g[7 - rank][7 - file]]]
        ELSE g

\* C1: when validateAndCorrect returns, the board contains exactly one
\* white king (class 6) and exactly one black king (class 12).
C1_ExactlyOneKingPerSide ==
    Returned => (NumberOf(board, 6) = 1 /\ NumberOf(board, 12) = 1)

\* C2: when validateAndCorrect returns, the count of each piece type per
\* colour is within its hard limit: king <= 1, queen <= 1, rook <= 2,
\* bishop <= 2, knight <= 2, pawn <= 8.
C2_CountsWithinLimits ==
    Returned =>
        /\ NumberOf(board, 6) <= 1 /\ NumberOf(board, 12) <= 1
        /\ NumberOf(board, 5) <= 1 /\ NumberOf(board, 11) <= 1
        /\ NumberOf(board, 4) <= 2 /\ NumberOf(board, 10) <= 2
        /\ NumberOf(board, 3) <= 2 /\ NumberOf(board, 9) <= 2
        /\ NumberOf(board, 2) <= 2 /\ NumberOf(board, 8) <= 2
        /\ NumberOf(board, 1) <= 8 /\ NumberOf(board, 7) <= 8

\* C2 witness: the loop has exited after Rule 3 demoted an excess piece
C2_Witness == Returned /\ Warned(3)

\* C3: the board that validateAndCorrect returns (and buildFEN serializes)
\* has no white or black pawn on rank index 0 or rank index 7.
C3_NoBackRankPawns ==
    Returned => \A rank \in {0, 7}, file \in 0..7 : board[rank][file] \notin {1, 7}

\* C4: the Rule 3 while (changed) loop terminates: no run of the loop is
\* still asking for another pass when MaxPasses passes have been made.
C4_Rule3Terminates == (pc = "rule3" /\ changed) => passes < MaxPasses

\* C4 witness: the loop has exited on its third pass, after two passes that
\* each demoted a piece
C4_Witness == pc = "rule3" /\ ~changed /\ passes >= 3

\* C5: running validateAndCorrect a second time on the board produced by a
\* first run (with the same probability grid) returns an empty warning list
\* and leaves the board unchanged.
C5_Idempotent ==
    pc = "done" =>
        LET again == validateAndCorrect(board, boardProbs)
        IN  again.warnings = <<>> /\ again.board = board

\* the constraints on a position as the specification lists them
SatisfiesListed(g) ==
    /\ NumberOf(g, 6) <= 1 /\ NumberOf(g, 12) <= 1
    /\ NumberOf(g, 1) <= 8 /\ NumberOf(g, 7) <= 8
    /\ \A rank \in {0, 7}, file \in 0..7 : g[rank][file] \notin {1, 7}
    /\ NumberOf(g, 4) <= 2 /\ NumberOf(g, 10) <= 2
    /\ NumberOf(g, 3) <= 2 /\ NumberOf(g, 9) <= 2
    /\ NumberOf(g, 2) <= 2 /\ NumberOf(g, 8) <= 2
    /\ NumberOf(g, 5) <= 1 /\ NumberOf(g, 11) <= 1

\* C6 (as claimed): for any board that already satisfies all constraints as
\* listed (at most one king per colour, ...), validateAndCorrect returns zero
\* warnings and leaves every cell unchanged.
C6_ListedConstraintsUntouched ==
    (Returned /\ SatisfiesListed(InputGrid)) =>
        (warnings = <<>> /\ board = InputGrid)

\* C6 (amended): for any board that satisfies the listed constraints and has
\* exactly one king of each colour, validateAndCorrect returns zero warnings
\* and leaves every cell unchanged.
C6_LegalWithBothKingsUntouched ==
    (/\ Returned
     /\ SatisfiesListed(InputGrid)
     /\ NumberOf(InputGrid, 6) = 1
     /\ NumberOf(InputGrid, 12) = 1) =>
        (warnings = <<>> /\ board = InputGrid)

\* C6 witness: a rotated legal position with both kings, one of whose squares
\* carries an uncertain prediction, has gone through all three rules
C6_Witness ==
    /\ pc = "done"
    /\ isFlipped
    /\ SatisfiesListed(InputGrid)
    /\ NumberOf(InputGrid, 6) = 1
    /\ NumberOf(InputGrid, 12) = 1
    /\ \E i \in 1..64 : predictions[i].probs[predictions[i].classIndex] < 90

\* C7: buildFEN called with a batch whose length is not exactly 64 rejects
\* it before any cell of the grid is built, and never returns a FEN for it.
C7_RejectsWrongLength ==
    Len(predictions) # 64 => (cellsBuilt = 0 /\ pc # "done" /\ fen = <<>>)

\* C8: detectOrientation returns true iff, counting only predictions 0..7
\* and 56..63, topWhite > topBlack and bottomBlack > bottomWhite; the
\* starting position with white on the bottom yields false, the same
\* position with the ranks swapped yields true, and predictions 8..55 never
\* influence the result.
C8_OrientationRule ==
    pc = "oriented" =>
        LET cls(i) == predictions[i + 1].classIndex
            topWhite == Cardinality({i \in 0..7 : cls(i) \in 1..6})
            topBlack == Cardinality({i \in 0..7 : cls(i) \in 7..12})
            bottomWhite == Cardinality({i \in 56..63 : cls(i) \in 1..6})
            bottomBlack == Cardinality({i \in 56..63 : cls(i) \in 7..12})
            middleSetTo(c) == [i \in 1..Len(predictions) |->
                                  IF i - 1 \in 8..55 THEN Pred(c) ELSE predictions[i]]
        IN  /\ isFlipped <=> (topWhite > topBlack /\ bottomBlack > bottomWhite)
            /\ (\A i \in 0..63 : cls(i) = StartPos[i + 1]) => ~isFlipped
            /\ (\A i \in 0..63 : cls(i) = StartPosSwapped[i + 1]) => isFlipped
            /\ \A c \in Classes : detectOrientation(middleSetTo(c)) = isFlipped

\* C8 witness: a batch other than the swapped starting position was found
\* to be flipped
C8_Witness ==
    /\ pc = "oriented"
    /\ isFlipped
    /\ \E i \in 1..64 : predictions[i].classIndex # StartPosSwapped[i]

\* the piece-placement field of a FEN string: everything before the first space
PlacementField(f) ==
    LET sp == CHOOSE i \in 1..Len(f) : f[i] = " " /\ \A j \in 1..(i - 1) : f[j] # " "
    IN  SubSeq(f, 1, sp - 1)

SlashPositions(p) == {i \in 1..Len(p) : p[i] = "/"}

\* the k-th of the 8 rank segments of a placement field with 7 separators
RankSegment(p, k) ==
    LET nth(n) == CHOOSE i \in SlashPositions(p) :
                      Cardinality({j \in SlashPositions(p) : j < i}) = n - 1
        lo == IF k = 1 THEN 0 ELSE nth(k - 1)
        hi == IF k = 8 THEN Len(p) + 1 ELSE nth(k)
    IN  SubSeq(p, lo + 1, hi - 1)

FenDigits == {"0", "1", "2", "3", "4", "5", "6", "7", "8", "9"}
FenLetters == {"P", "N", "B", "R", "Q", "K", "p", "n", "b", "r", "q", "k"}

FenDigitValue(ch) ==
    CASE ch = "0" -> 0 [] ch = "1" -> 1 [] ch = "2" -> 2 [] ch = "3" -> 3
      [] ch = "4" -> 4 [] ch = "5" -> 5 [] ch = "6" -> 6 [] ch = "7" -> 7
      [] ch = "8" -> 8 [] ch = "9" -> 9

\* squares covered by a rank segment: a digit covers its value, a letter one
RECURSIVE SegmentSquares(_)
SegmentSquares(seg) ==
    IF seg = <<>> THEN 0
    ELSE (IF Head(seg) \in FenDigits THEN FenDigitValue(Head(seg)) ELSE 1)
         + SegmentSquares(Tail(seg))

\* C9: the piece-placement field of the string returned by buildFEN contains
\* exactly 7 '/' separators and in each of the 8 rank segments the digits'
\* values plus the number of piece letters sum to exactly 8; no digit is 0
\* or greater than 8, and no two digits are adjacent.
C9_PlacementWellFormed ==
    pc = "done" =>
        LET p == PlacementField(fen)
        IN  /\ Cardinality(SlashPositions(p)) = 7
            /\ \A k \in 1..8 :
                  LET seg == RankSegment(p, k)
                  IN  /\ \A i \in 1..Len(seg) : seg[i] \in FenDigits \cup FenLetters
                      /\ SegmentSquares(seg) = 8
            /\ \A i \in 1..Len(p) : p[i] \notin {"0", "9"}
            /\ \A i \in 1..(Len(p) - 1) : ~(p[i] \in FenDigits /\ p[i + 1] \in FenDigits)

\* C9 witness: a FEN was returned in which one rank is written "8" and
\* another ends in a digit that follows a piece letter
C9_Witness ==
    /\ pc = "done"
    /\ \E k \in 1..8 : RankSegment(PlacementField(fen), k) = <<"8">>
    /\ \E k \in 1..8 :
          LET seg == RankSegment(PlacementField(fen), k)
          IN  /\ Len(seg) >= 2
              /\ seg[Len(seg)] \in FenDigits
              /\ seg[Len(seg) - 1] \in FenLetters

\* reference serialization of one square: a piece is its letter; an empty
\* square that ends a maximal run of empty squares is the length of the run;
\* any other empty square contributes nothing
RefSquare(b, rank, file) ==
    IF b[rank][file] # 0
    THEN << <<"P", "N", "B", "R", "Q", "K", "p", "n", "b", "r", "q", "k">>[b[rank][file]] >>
    ELSE IF file < 7 /\ b[rank][file + 1] = 0
         THEN <<>>
         ELSE LET run == Cardinality({g \in 0..file :
                                        \A h \in g..file : b[rank][h] = 0})
              IN  << <<"1", "2", "3", "4", "5", "6", "7", "8">>[run] >>

RefRank(b, rank) ==
    RefSquare(b, rank, 0) \o RefSquare(b, rank, 1) \o RefSquare(b, rank, 2) \o
    RefSquare(b, rank, 3) \o RefSquare(b, rank, 4) \o RefSquare(b, rank, 5) \o
    RefSquare(b, rank, 6) \o RefSquare(b, rank, 7)

RefPlacement(b) ==
    RefRank(b, 0) \o <<"/">> \o RefRank(b, 1) \o <<"/">> \o RefRank(b, 2) \o <<"/">> \o
    RefRank(b, 3) \o <<"/">> \o RefRank(b, 4) \o <<"/">> \o RefRank(b, 5) \o <<"/">> \o
    RefRank(b, 6) \o <<"/">> \o RefRank(b, 7)

\* C10: the string returned by buildFEN equals the reference serialization
\* of the corrected grid (ranks top to bottom joined by '/', each maximal run
\* of empty squares one digit, white classes 1..6 as P,N,B,R,Q,K and black
\* classes 7..12 as p,n,b,r,q,k) followed by the fixed suffix ' w KQkq - 0 1'.
C10_FenIsReferenceSerialization ==
    pc = "done" =>
        fen = RefPlacement(board) \o
              <<" ", "w", " ", "K", "Q", "k", "q", " ", "-", " ", "0", " ", "1">>

\* C10 witness: a corrected grid, different from the predicted one and
\* holding knights of both colours, was serialized
C10_Witness ==
    /\ pc = "done"
    /\ board # InputGrid
    /\ NumberOf(board, 2) > 0
    /\ NumberOf(board, 8) > 0

\* the probability grid handed to validateAndCorrect: each square's vector is
\* the one of the prediction whose class InputGrid shows on that square
InputProbs ==
    [rank \in 0..7 |-> [file \in 0..7 |->
        IF isFlipped THEN predictions[(7 - rank) * 8 + (7 - file) + 1].probs
                     ELSE predictions[rank * 8 + file + 1].probs]]

\* the back-rank squares holding a pawn before Rule 1, in the order Rule 1
\* visits them (rank index 0 left to right, then rank index 7)
BackRankPawnSquares ==
    SelectSeq([k \in 1..16 |-> <<IF k <= 8 THEN 0 ELSE 7, (k - 1) % 8>>],
              LAMBDA sq : InputGrid[sq[1]][sq[2]] \in {1, 7})

\* C11: Rule 1 replaces every pawn on rank index 0 or 7 by the class with the
\* highest probability in that square's own vector among the 11 non-pawn
\* classes, appends exactly one warning naming the original pawn class and
\* the rank for it, and leaves every other square untouched.
C11_Rule1ReplacesBackRankPawns ==
    pc = "rule2" =>
        /\ \A rank \in 0..7, file \in 0..7 :
              IF rank \in {0, 7} /\ InputGrid[rank][file] \in {1, 7}
              THEN /\ board[rank][file] \in (0..12) \ {1, 7}
                   /\ \A c \in (0..12) \ {1, 7} :
                         InputProbs[rank][file][board[rank][file]]
                            >= InputProbs[rank][file][c]
              ELSE board[rank][file] = InputGrid[rank][file]
        /\ Len(warnings) = Len(BackRankPawnSquares)
        /\ \A i \in 1..Len(warnings) :
              LET sq == BackRankPawnSquares[i]
              IN  /\ warnings[i].rule = 1
                  /\ warnings[i].from =
                        (IF InputGrid[sq[1]][sq[2]] = 1 THEN "wP" ELSE "bP")
                  /\ warnings[i].info = (IF sq[1] = 0 THEN "8" ELSE "1")

\* C11 witness: Rule 1 has just replaced a back-rank pawn of a rotated board
\* by a piece
C11_Witness ==
    /\ pc = "rule2"
    /\ isFlipped
    /\ \E i \in 1..Len(warnings) : warnings[i].rule = 1 /\ warnings[i].to # "empty"

\* the hard limit of each piece class, as the rules state them
LimitOf ==
    [c \in 1..12 |-> IF c \in {6, 12, 5, 11} THEN 1
                     ELSE IF c \in {1, 7} THEN 8 ELSE 2]

\* the piece classes over their limit / at or above their limit on a grid
OverLimit(b) == {c \in 1..12 : NumberOf(b, c) > LimitOf[c]}
AtOrAboveLimit(b) == {c \in 1..12 : NumberOf(b, c) >= LimitOf[c]}

\* the squares a step from grid b to grid b2 has changed
ChangedSquares(b, b2) ==
    {sq \in (0..7) \X (0..7) : b2[sq[1]][sq[2]] # b[sq[1]][sq[2]]}

\* what one Rule 3 pass from (b, w) to (b2, w2) has to have done
PassKeepsBestAndDemotesRest(b, w, b2, w2, probs) ==
    /\ \A c \in OverLimit(b) :
          LET kept == {sq \in SquaresWith(b, c) : b2[sq[1]][sq[2]] = c}
          IN  /\ Cardinality(kept) = LimitOf[c]
              /\ \A k \in kept, d \in SquaresWith(b, c) \ kept :
                    probs[k[1]][k[2]][c] >= probs[d[1]][d[2]][c]
    /\ \A sq \in ChangedSquares(b, b2) :
          /\ b[sq[1]][sq[2]] \in OverLimit(b)
          /\ b2[sq[1]][sq[2]] \notin AtOrAboveLimit(b)
          /\ \A c \in (0..12) \ AtOrAboveLimit(b) :
                probs[sq[1]][sq[2]][b2[sq[1]][sq[2]]] >= probs[sq[1]][sq[2]][c]
    /\ Len(w2) = Len(w) + Cardinality(ChangedSquares(b, b2))
    /\ SubSeq(w2, 1, Len(w)) = w
    /\ \A i \in (Len(w) + 1)..Len(w2) : w2[i].rule = 3

\* C12: in each Rule 3 pass, for every piece type whose count exceeds its
\* limit N the N occurrences with the highest probability for that type are
\* kept, and each remaining occurrence is replaced by the highest-probability
\* class of its own vector among the classes that were not at or above their
\* limit at the start of the pass, with exactly one warning per replaced
\* square.
C12_PassKeepsBestAndDemotesRest ==
    [][(pc = "rule3" /\ changed) =>
          PassKeepsBestAndDemotesRest(board, warnings, board', warnings', boardProbs)]_vars

\* C12 witness: two white kings with confidences 0.9 and 0.6 and one black
\* king were predicted; after the first pass the king stands on the 0.9
\* square only and exactly one warning was issued
C12_Witness ==
    /\ pc = "rule3" /\ passes = 1
    /\ NumberOf(InputGrid, 6) = 2 /\ NumberOf(InputGrid, 12) = 1
    /\ \E hi \in SquaresWith(InputGrid, 6), lo \in SquaresWith(InputGrid, 6) :
          /\ InputProbs[hi[1]][hi[2]][6] = 90
          /\ InputProbs[lo[1]][lo[2]][6] = 60
          /\ board[hi[1]][hi[2]] = 6
          /\ board[lo[1]][lo[2]] # 6
    /\ Len(warnings) = 1 /\ warnings[1].rule = 3 /\ warnings[1].from = "wK"

\* position of a square in scan order (rank ascending, then file ascending)
ScanIndex(sq) == sq[1] * 8 + sq[2]

\* the first square in scan order among those with the highest probability
\* for class k
EarliestBest(probs, k) ==
    CHOOSE sq \in (0..7) \X (0..7) :
        \A t \in (0..7) \X (0..7) :
            \/ probs[t[1]][t[2]][k] < probs[sq[1]][sq[2]][k]
            \/ probs[t[1]][t[2]][k] = probs[sq[1]][sq[2]][k] /\ ScanIndex(sq) <= ScanIndex(t)

\* Rule 2 from grid b to grid b2: a missing king goes to the earliest best
\* square of its class.  The black search runs on the grid the white
\* placement left, so black also counts as missing when the white king was
\* put on the only black king, and a white king just placed may itself be
\* overwritten by the black one.
Rule2TieBreak(b, b2, probs) ==
    LET wSq == EarliestBest(probs, 6)
        bSq == EarliestBest(probs, 12)
        whiteMissing == NumberOf(b, 6) = 0
        blackMissing == \/ NumberOf(b, 12) = 0
                        \/ whiteMissing /\ SquaresWith(b, 12) = {wSq}
    IN  /\ blackMissing => b2[bSq[1]][bSq[2]] = 12
        /\ whiteMissing =>
              \/ b2[wSq[1]][wSq[2]] = 6
              \/ blackMissing /\ bSq = wSq

\* a Rule 3 pass from b to b2: among occurrences of an over-limit type with
\* equal confidence, a kept one precedes every demoted one in scan order
Rule3TieBreak(b, b2, probs) ==
    \A c \in OverLimit(b) :
        \A k \in SquaresWith(b, c), d \in SquaresWith(b, c) :
            (/\ b2[k[1]][k[2]] = c
             /\ b2[d[1]][d[2]] # c
             /\ probs[k[1]][k[2]][c] = probs[d[1]][d[2]][c]) =>
                ScanIndex(k) < ScanIndex(d)

\* C13: ties in the correction rules are resolved by scan order, first
\* candidate wins: in Rule 2 the earliest of the squares tied for the highest
\* king probability receives the king, and in Rule 3 the occurrences of an
\* over-limit type that are kept precede the demoted ones of equal confidence.
C13_TiesResolvedByScanOrder ==
    [][/\ pc = "rule2" => Rule2TieBreak(board, board', boardProbs)
       /\ (pc = "rule3" /\ changed) => Rule3TieBreak(board, board', boardProbs)]_vars

\* C13 witness: the black king went to square (0,0), first of several squares
\* tied for the highest black-king probability, and of two white kings of
\* equal confidence the first pass kept the earlier and demoted the later
C13_Witness ==
    /\ pc = "rule3" /\ passes = 1
    /\ board[0][0] = 12
    /\ \E t \in (0..7) \X (0..7) :
          t # <<0, 0>> /\ InputProbs[t[1]][t[2]][12] = InputProbs[0][0][12]
    /\ \A t \in (0..7) \X (0..7) : InputProbs[t[1]][t[2]][12] <= InputProbs[0][0][12]
    /\ \E k \in SquaresWith(InputGrid, 6), d \in SquaresWith(InputGrid, 6) :
          /\ InputProbs[k[1]][k[2]][6] = InputProbs[d[1]][d[2]][6]
          /\ ScanIndex(k) < ScanIndex(d)
          /\ board[k[1]][k[2]] = 6
          /\ board[d[1]][d[2]] # 6

\* the batch q with q[i] = p[63 - i] (0-based) for the batch p = predictions
RotatedBatch == [j \in 1..64 |-> predictions[65 - j]]

\* C14: flipping is a 180-degree rotation applied identically to the class
\* grid and the probability grid: buildFEN(p, true) returns the same fen and
\* the same warnings as buildFEN(q, false) with q[i] = p[63 - i], each cell's
\* class staying paired with its own probability vector.
C14_FlipIsRotationOfBothGrids ==
    (isFlipped /\ Len(predictions) = 64) =>
        /\ pc = "flipped" =>
              \A rank \in 0..7, file \in 0..7 :
                  LET p == predictions[64 - (rank * 8 + file)]
                  IN  board[rank][file] = p.classIndex /\ boardProbs[rank][file] = p.probs
        /\ pc = "done" =>
              LET q == RotatedBatch
                  unflipped == validateAndCorrect(gridOfClasses(q, 64), gridOfProbs(q, 64))
              IN  /\ fen = serialize(unflipped.board)
                  /\ warnings = unflipped.warnings

\* C14 witness: a flipped batch that is not symmetric under the rotation was
\* corrected and serialized
C14_Witness ==
    /\ pc = "done" /\ isFlipped /\ Len(predictions) = 64
    /\ warnings # <<>>
    /\ \E i \in 1..64 : predictions[i].classIndex # predictions[65 - i].classIndex

\* the number of cell writes a correction step makes from grid b:
\* Rule 1 writes each back-rank pawn, Rule 2 each missing king, a Rule 3
\* pass each occurrence in excess of a limit
Rule1Writes(b) ==
    Cardinality({sq \in {0, 7} \X (0..7) : b[sq[1]][sq[2]] \in {1, 7}})

Rule2Writes(b, probs) ==
    LET whiteMissing == NumberOf(b, 6) = 0
        blackMissing == \/ NumberOf(b, 12) = 0
                        \/ whiteMissing /\ SquaresWith(b, 12) = {EarliestBest(probs, 6)}
    IN  (IF whiteMissing THEN 1 ELSE 0) + (IF blackMissing THEN 1 ELSE 0)

RECURSIVE SumExcess(_, _)
SumExcess(b, c) ==
    IF c > 12 THEN 0
    ELSE (IF NumberOf(b, c) > LimitOf[c] THEN NumberOf(b, c) - LimitOf[c] ELSE 0)
         + SumExcess(b, c + 1)

Rule3Writes(b) == SumExcess(b, 1)

\* C15: every automatic change is reported: each write that Rules 1-3 make to
\* a board cell appends exactly one warning to the list buildFEN returns (no
\* cell changes without one, none is dropped later), and an empty warnings
\* list implies that the serialized grid equals the orientation-corrected
\* predicted grid cell for cell.
C15_EveryWriteIsWarned ==
    [][/\ pc' \in {"rule2", "rule3"} =>
             /\ Len(warnings') - Len(warnings) =
                   (IF pc \in {"grid", "flipped"} THEN Rule1Writes(board)
                    ELSE IF pc = "rule2" THEN Rule2Writes(board, boardProbs)
                    ELSE Rule3Writes(board))
             /\ Cardinality(ChangedSquares(board, board')) <= Len(warnings') - Len(warnings)
             /\ SubSeq(warnings', 1, Len(warnings)) = warnings
       /\ pc' = "done" =>
             /\ warnings' = warnings
             /\ warnings' = <<>> =>
                   /\ board' = InputGrid
                   /\ fen' = RefPlacement(InputGrid) \o
                         <<" ", "w", " ", "K", "Q", "k", "q", " ", "-", " ", "0", " ", "1">>]_vars

\* C15 witness: a FEN was returned after Rule 2 inserted a king and Rule 3
\* demoted a piece, with as many warnings as cells that differ from the input
C15_Witness ==
    /\ pc = "done" /\ Warned(2) /\ Warned(3)
    /\ Len(warnings) = Cardinality(ChangedSquares(InputGrid, board))

\* C20: demotions never create new violations: during Rule 3, replacing excess
\* pieces by their best alternatives never raises the count of a piece type
\* that was within its limit above that type's limit, also when several
\* excess pieces are demoted in the same pass.
C20_DemotionsCreateNoViolation ==
    [][pc = "rule3" =>
          \A c \in 1..12 :
              NumberOf(board, c) <= LimitOf[c] => NumberOf(board', c) <= LimitOf[c]]_vars

\* a rectangle that is square and lies within the image on canvas c
InImage(r, c) ==
    /\ r.width = r.height
    /\ r.x >= 0 /\ r.y >= 0
    /\ r.x + r.width <= c.width
    /\ r.y + r.height <= c.height

\* the first candidate was accepted / was scored below the threshold
CenteredAccepted(c) ==
    LET first == chessboardScore(c, centeredRect(c.width, c.height))
    IN  first # NaN /\ first >= 40

CenteredBelow(c) ==
    LET first == chessboardScore(c, centeredRect(c.width, c.height))
    IN  first # NaN /\ first < 40

\* C16: findBoardRect never fails: for every image of width >= 1 and height
\* >= 1 and any pixel content it returns a rectangle with width = height,
\* x >= 0, y >= 0, x + width <= imageWidth and y + height <= imageHeight,
\* also when no candidate reaches the acceptance threshold, and every
\* candidate rectangle it scores during the sweep satisfies the same bounds.
C16_CoarseRectWithinImage ==
    /\ pc = "image" => canvas.width >= 1 /\ canvas.height >= 1
    /\ pc = "rough" =>
          /\ InImage(rough, canvas)
          /\ \A i \in 1..Len(scored) : InImage(scored[i], canvas)

\* C16 witness: the sweep ran on an image on which no candidate reaches the
\* threshold and some candidates have no score at all, and it returned a
\* rectangle other than the centered square
C16_Witness ==
    /\ pc = "rough"
    /\ Len(scored) > 1
    /\ \A i \in 1..Len(scored) : chessboardScore(canvas, scored[i]) < 40
    /\ \E i \in 1..Len(scored) : chessboardScore(canvas, scored[i]) = NaN
    /\ rough # centeredRect(canvas.width, canvas.height)

\* C17: refineBoardRect: for every coarse rectangle that is square and lies
\* within the image, and every edge map, the returned rectangle has width =
\* height = min(round(8 * bestTileWidth), round(8 * bestTileHeight)), its
\* origin is the pair of independently found offsets, and it lies fully
\* within the image, including when a search finds no candidate better than
\* the coarse values.
C17_RefinedRectWithinImage ==
    pc = "refined" =>
        /\ InImage(rough, canvas)
        /\ rect.width = Min((alignment.bestTW + 10) \div 20,
                            (alignment.bestTH + 10) \div 20)
        /\ rect.height = rect.width
        /\ rect.x = alignment.bestOffset
        /\ rect.y = alignment.bestYOffset
        /\ InImage(rect, canvas)

\* C17 witness: the coarse rectangle touches the right and the bottom border
\* of the image, the two searches found different tile sizes, and the result
\* is another rectangle than the coarse one
C17_Witness ==
    /\ pc = "refined"
    /\ rough.width >= 16
    /\ rough.x + rough.width = canvas.width
    /\ rough.y + rough.height = canvas.height
    /\ alignment.bestTW # alignment.bestTH
    /\ rect # rough

\* C18: fast path of findBoardRect: the largest centered square is scored
\* first, and whenever its chessboardScore is >= 40 that centered square is
\* returned immediately without evaluating any other candidate; when its
\* score is < 40 the sliding-window sweep is performed.
C18_FastPath ==
    pc = "rough" =>
        /\ scored[1] = centeredRect(canvas.width, canvas.height)
        /\ CenteredAccepted(canvas) =>
              /\ rough = centeredRect(canvas.width, canvas.height)
              /\ Len(scored) = 1
        /\ CenteredBelow(canvas) =>
              /\ Len(scored) = 1 + 11 * 13 * 13
              /\ \A n \in 2..Len(scored) : scored[n] = sweepOrder(canvas)[n - 1]

\* C18 witness: the centered square scored exactly 40 and was returned
\* although another candidate, never scored, has the score 64
C18_Witness ==
    /\ pc = "rough"
    /\ chessboardScore(canvas, centeredRect(canvas.width, canvas.height)) = 40
    /\ canvas.peak # centeredRect(canvas.width, canvas.height)
    /\ chessboardScore(canvas, canvas.peak) = 64
    /\ rough = centeredRect(canvas.width, canvas.height)
    /\ Len(scored) = 1

\* C19: when the fast path is not taken, findBoardRect returns a candidate
\* whose weighted score chessboardScore * (candidateSize / maxSize) is the
\* maximum over all candidates evaluated in the sweep (11 side lengths from
\* 50% to 100% of min(width, height), 13 x 13 positions each); among
\* candidates with equal weighted score the first one evaluated is returned,
\* and the full centered square is always among the candidates.
C19_SweepReturnsFirstMaximum ==
    (pc = "rough" /\ Len(scored) > 1) =>
        LET n == Len(scored)
            size == Min(canvas.width, canvas.height)
            hasScore(i) == chessboardScore(canvas, scored[i]) # NaN
            weighted(i) == chessboardScore(canvas, scored[i]) * scored[i].width
        IN  /\ n - 1 = 11 * 13 * 13
            /\ \A si \in 0..10 : \A k \in 0..168 :
                  scored[2 + si * 169 + k].width =
                      (10 * (size \div 2) + (size - size \div 2) * si) \div 10
            /\ scored[2].width = size \div 2
            /\ scored[n].width = size
            /\ \E i \in 2..n : scored[i] = centeredRect(canvas.width, canvas.height)
            /\ \E j \in 2..n :
                  /\ scored[j] = rough
                  /\ hasScore(j)
                  /\ \A i \in 2..n : hasScore(i) => weighted(i) <= weighted(j)
                  /\ \A i \in 2..(j - 1) : hasScore(i) => weighted(i) < weighted(j)

\* C19 witness: the sweep returned a candidate of half the full size whose
\* weighted score equals that of the full centered square, scored later
C19_Witness ==
    /\ pc = "rough"
    /\ Len(scored) > 1
    /\ rough.width * 2 = Min(canvas.width, canvas.height)
    /\ chessboardScore(canvas, rough) = 64
    /\ chessboardScore(canvas, centeredRect(canvas.width, canvas.height)) = 32

\* C21: progress measure of Rule 3: in every pass that makes at least one
\* change the total number of over-limit occurrences (the sum over the 12
\* piece types of max(0, count - limit)) is strictly smaller after the pass
\* than before it, and a piece type that stands at its limit is never pushed
\* over its limit by a later pass.
C21_PassesReduceExcess ==
    [][pc = "rule3" =>
          /\ board' # board => SumExcess(board', 1) < SumExcess(board, 1)
          /\ \A c \in 1..12 :
                NumberOf(board, c) = LimitOf[c] => NumberOf(board', c) <= LimitOf[c]]_vars

\* C21 witness: three white queens were predicted; the first pass reduced
\* them to one and left three white rooks, the second pass reduced the rooks
\* to two while the queen stayed at its limit
C21_Witness ==
    /\ pc = "rule3" /\ passes = 2
    /\ NumberOf(InputGrid, 5) = 3
    /\ NumberOf(board, 5) = 1
    /\ NumberOf(board, 4) = 2
    /\ Len(warnings) = 3

RectFitsImage ==
    /\ gridRect.x >= 0 /\ gridRect.y >= 0
    /\ gridRect.x + gridRect.width <= img.width
    /\ gridRect.y + gridRect.height <= img.height
    /\ gridRect.width >= 8 * MIN_GAP
    /\ gridRect.height >= 8 * MIN_GAP

\* 9 lines, strictly increasing, adjacent ones MIN_GAP apart, within [0, limit]
LinesInOrder(lines, limit) ==
    /\ Len(lines) = 9
    /\ lines[1] >= 0
    /\ lines[9] <= limit
    /\ \A i \in 1..8 : /\ lines[i] < lines[i + 1]
                        /\ lines[i + 1] - lines[i] >= MIN_GAP * Unit

\* C23: when the editor was enabled with a rectangle within the image whose
\* sides are at least 8 * MIN_GAP, then after any sequence of mouse and touch
\* events the 9 x-lines and the 9 y-lines are strictly increasing, adjacent
\* lines are at least MIN_GAP image pixels apart, and all lie within
\* [0, image width] and [0, image height].
C23_LinesStayOrdered ==
    RectFitsImage =>
        /\ LinesInOrder(xLines, Unit * img.width)
        /\ LinesInOrder(yLines, Unit * img.height)

\* drags have moved an outer line to the image edge, and a line rests at the
\* minimum gap from a neighbour it was pushed against
C23_Witness ==
    /\ RectFitsImage
    /\ moves >= 2
    /\ xLines[1] = 0
    /\ xLines[1] # evenLines(gridRect.x, gridRect.width)[1]
    /\ \E i \in 2..8 :
          /\ xLines[i] # evenLines(gridRect.x, gridRect.width)[i]
          /\ \/ xLines[i] - xLines[i - 1] = MIN_GAP * Unit
             \/ xLines[i + 1] - xLines[i] = MIN_GAP * Unit

\* C24: the lines change only while a drag is active; a drag of an x-line
\* changes only that x-line, a drag of a y-line only that y-line, a corner
\* drag only one outer x-line and one outer y-line; and a step that moves a
\* line leaves the dragged element the one chosen at mousedown.
C24_DragMovesOnlyChosenLine ==
    [][/\ dragging = Null => xLines' = xLines /\ yLines' = yLines
       /\ dragging # Null =>
             /\ (xLines' # xLines \/ yLines' # yLines) => dragging' = dragging
             /\ dragging.axis = "x" =>
                   /\ yLines' = yLines
                   /\ \A i \in 1..9 : i # dragging.index + 1 => xLines'[i] = xLines[i]
             /\ dragging.axis = "y" =>
                   /\ xLines' = xLines
                   /\ \A i \in 1..9 : i # dragging.index + 1 => yLines'[i] = yLines[i]
             /\ dragging.axis = "corner" =>
                   /\ dragging.xi \in {0, 8} /\ dragging.yi \in {0, 8}
                   /\ \A i \in 1..9 : i # dragging.xi + 1 => xLines'[i] = xLines[i]
                   /\ \A i \in 1..9 : i # dragging.yi + 1 => yLines'[i] = yLines[i]]_vars

\* a corner drag has moved its x-line and its y-line, an inner x-line has
\* been dragged as well
C24_Witness ==
    /\ dragging # Null
    /\ dragging.axis = "corner"
    /\ xLines[dragging.xi + 1] # evenLines(gridRect.x, gridRect.width)[dragging.xi + 1]
    /\ yLines[dragging.yi + 1] # evenLines(gridRect.y, gridRect.height)[dragging.yi + 1]
    /\ \E i \in 2..8 : xLines[i] # evenLines(gridRect.x, gridRect.width)[i]

\* C25: in every interleaving of the user's events with the completions of
\* image decoding, rotation and classification, while the grid editor is
\* active on an image that has not been confirmed, board editing is off
\* (boardArray is null and the palette is hidden), and the predictions the
\* page holds once editing is on are those computed from the current image.
C25_EditingOffWhileGridActive ==
    /\ gridImg # Null => boardArray = Null /\ paletteHidden
    /\ boardArray # Null => predictionsImg = currentImg

\* C26: once the grid is confirmed (boardArray is not null), after any
\* sequence of palette drops, square clicks and flip clicks the FEN in the
\* text field is boardToFen(boardArray).
C26_TextIsBoardToFen ==
    boardArray # Null => fenText = boardToFen(boardArray)

\* an 8x8 array of cells
IsBoard(b) == Len(b) = 8 /\ \A r \in 1..8 : Len(b[r]) = 8

\* C27: the board codec is a round trip. For every fen buildFEN returned,
\* fenToBoard(fen) is an 8x8 array and boardToFen(fenToBoard(fen)) is fen;
\* for every 8x8 array b of piece letters and empty strings the page holds,
\* fenToBoard(boardToFen(b)) is b.
C27_CodecRoundTrip ==
    /\ \A a \in calls :
          /\ IsBoard(fenToBoard(a.fen))
          /\ boardToFen(fenToBoard(a.fen)) = a.fen
    /\ boardArray # Null =>
          /\ IsBoard(boardArray)
          /\ fenToBoard(boardToFen(boardArray)) = boardArray

\* an edited board: a rank that begins with an emptied square, a rank that
\* is all empty, and a text field written by boardToFen
C27_Witness ==
    /\ boardArray # Null
    /\ calls # {}
    /\ boardArray[1][1] = "" /\ boardArray[1][2] # ""
    /\ \E r \in 1..8 : \A f \in 1..8 : boardArray[r][f] = ""
    /\ fenText = boardToFen(boardArray)
    /\ \E a \in calls : boardArray # fenToBoard(a.fen)

\* the pixels joined to a pixel >= highT by an 8-connected path of pixels
\* that are all >= lowT (the path's ends included)
RECURSIVE LinkedTo(_)
LinkedTo(S) ==
    LET w == dims[1]
        h == dims[2]
        near(i, j) == /\ i # j
                      /\ (i % w) - (j % w) \in {-1, 0, 1}
                      /\ (i \div w) - (j \div w) \in {-1, 0, 1}
        more == {i \in 0..(w * h - 1) :
                    /\ i \notin S
                    /\ nms[i + 1] >= lowT
                    /\ \E j \in S : near(i, j)}
    IN  IF more = {} THEN S ELSE LinkedTo(S \cup more)

Linked == LinkedTo({i \in 0..(dims[1] * dims[2] - 1) : nms[i + 1] >= highT})

\* C28: the edge map canny returns holds only 0 and 255, and a pixel is 255
\* exactly when its non-maximum-suppressed magnitude is >= highT, or it is
\* >= lowT and joined to a pixel >= highT by an 8-connected path of pixels
\* all >= lowT; every other pixel is 0.
C28_HysteresisResult ==
    pc = "edges" =>
        \A i \in 0..(dims[1] * dims[2] - 1) :
            /\ edge[i + 1] \in {0, 255}
            /\ edge[i + 1] = 255 <=> i \in Linked

\* a weak pixel was linked through another weak pixel, by a sweep after the
\* first, and a weak pixel with no path was cleared
C28_Witness ==
    /\ pc = "edges"
    /\ sweeps >= 3
    /\ \E i \in 0..(dims[1] * dims[2] - 1) : nms[i + 1] \in lowT..(highT - 1) /\ edge[i + 1] = 255
    /\ \E i \in 0..(dims[1] * dims[2] - 1) : nms[i + 1] \in lowT..(highT - 1) /\ edge[i + 1] = 0

NumberStrong(e) == Cardinality({i \in 1..Len(e) : e[i] = STRONG})

\* C29: the linking loop terminates. A sweep that reports a change strictly
\* increases the number of strong pixels, a sweep that reports none changes
\* nothing and is the last, no pixel goes from strong back to weak, and so
\* the sweeps number at most one more than the pixels that started weak.
C29_LinkingTerminates ==
    [][pc = "linking" /\ pc' = "linking" =>
          /\ sweeps' = sweeps + 1
          /\ changed' => NumberStrong(edge') > NumberStrong(edge)
          /\ ~changed' => edge' = edge
          /\ \A i \in 1..Len(edge) : edge[i] = STRONG => edge'[i] = STRONG
          /\ sweeps' <= 1 + Cardinality({i \in 1..Len(nms) : thresholdEdges(nms)[i] = WEAK})
          /\ changed]_vars

\* the loop has ended after several sweeps, weak pixels are left over
C29_Witness ==
    /\ pc = "linking"
    /\ ~changed
    /\ sweeps >= 3
    /\ \E i \in 1..Len(edge) : edge[i] = WEAK

\* 64 predictions, number k carrying the label k
NumberedPredictions == [k \in 1..64 |-> [classIndex |-> k - 1, probs |-> <<>>]]

\* C30: extractTiles returns exactly 64 tiles in row-major order, rank 0 at
\* the top of the image: tile rank * 8 + file is the cell whose source
\* region starts at (rect.x + file * rect.width / 8, rect.y + rank *
\* rect.height / 8) and measures rect.width / 8 by rect.height / 8, and
\* buildFEN puts prediction number rank * 8 + file on that square.
C30_TilesRowMajor ==
    pc = "tiles" =>
        /\ Len(tiles) = 64
        /\ \A rank \in 0..7, file \in 0..7 :
              /\ tiles[rank * 8 + file + 1] =
                    [sx |-> 8 * rect.x + file * rect.width,
                     sy |-> 8 * rect.y + rank * rect.height,
                     sw |-> rect.width, sh |-> rect.height]
              /\ gridOfClasses(NumberedPredictions, 64)[rank][file] = rank * 8 + file

\* tiles were cut from a rectangle that is not at the origin and whose
\* cells are distinct
C30_Witness ==
    /\ pc = "tiles"
    /\ Len(tiles) = 64
    /\ rect.width > 0 /\ rect.height > 0
    /\ rect.x > 0 /\ rect.y > 0
    /\ tiles[2] # tiles[9]
====
